---- MODULE Spec2Model ----
(***************************************************************************)
(* A model of the decimalInfinite codec of sqlite3decimal                  *)
(* (src/src/decInfinite.c): decInfiniteFromNumber encodes a decNumber into *)
(* an order-preserving byte string, decInfiniteToNumber decodes it.        *)
(*                                                                         *)
(* Bytes, units and counters are naturals kept at their C width.  The      *)
(* output buffer is a function 0..DECINF_MAXSIZE-1 -> 0..255, a bit        *)
(* position is a record [pos, free] as struct bitPos, and the functions    *)
(* that write through a bitPos return the buffer together with the         *)
(* position, as a record [buf, pos, free].                                 *)
(***************************************************************************)
EXTENDS Integers, Sequences, FiniteSets, TLC

(***************************************************************************)
(* Program constants.                                                      *)
(***************************************************************************)
DECNUMDIGITS == 39

DECINF_EXPSIZE == 30

DECDPUN == 3

DECDPUNMAX == 999

DECINF_MAXSIZE == 1 + (2 + 1 + (2 * DECINF_EXPSIZE - 1) + ((10 * DECNUMDIGITS) \div 3) - 1) \div 8

DECNUMUNITS == (DECNUMDIGITS + DECDPUN - 1) \div DECDPUN

\* decNumber's bits field
DECNEG == 128

DECINF == 64

DECNAN == 32

DECSNAN == 16

DECSPECIAL == DECINF + DECNAN + DECSNAN

(***************************************************************************)
(* Bit operations on naturals.                                             *)
(***************************************************************************)
RECURSIVE BitAnd(_, _)
BitAnd(a, b) ==
  IF a = 0 \/ b = 0 THEN 0
  ELSE (IF a % 2 = 1 /\ b % 2 = 1 THEN 1 ELSE 0) + 2 * BitAnd(a \div 2, b \div 2)

RECURSIVE BitOr(_, _)
BitOr(a, b) ==
  IF a = 0 THEN b
  ELSE IF b = 0 THEN a
  ELSE (IF a % 2 = 1 \/ b % 2 = 1 THEN 1 ELSE 0) + 2 * BitOr(a \div 2, b \div 2)

RECURSIVE BitXor(_, _)
BitXor(a, b) ==
  IF a = 0 THEN b
  ELSE IF b = 0 THEN a
  ELSE (IF a % 2 # b % 2 THEN 1 ELSE 0) + 2 * BitXor(a \div 2, b \div 2)

Shr(x, n) == x \div (2 ^ n)

\* left shift of a value whose result is stored in a uByte
Shl8(x, n) == (x * (2 ^ n)) % 256

\* left shift of a value whose result is stored in a Unit (uint16_t)
Shl16(x, n) == (x * (2 ^ n)) % 65536

\* uCount is uint_fast8_t, an 8-bit unsigned count
UCount(x) == x % 256

\* MASK[i] clears all but the i least significant bits (entries 0..30)
MASK(i) == (2 ^ i) - 1

\* the two bytes of a dUnit
DECLET_HI(u) == (u \div 256) % 256

DECLET_LO(u) == u % 256

\* number of units needed for d digits
D2U(d) == (d + DECDPUN - 1) \div DECDPUN

multies == <<131073, 26215, 5243, 1049, 210>>

QUOT10(u, n) == Shr(Shr(u, n) * multies[n + 1], 17)

X10(u) == u * 10

X100(u) == u * 100

(***************************************************************************)
(* ilog2: position of the highest bit set, by table look-up.               *)
(***************************************************************************)
LogTable256(i) ==
  IF i = 0 THEN -1
  ELSE IF i = 1 THEN 0
  ELSE IF i < 4 THEN 1
  ELSE IF i < 8 THEN 2
  ELSE IF i < 16 THEN 3
  ELSE IF i < 32 THEN 4
  ELSE IF i < 64 THEN 5
  ELSE IF i < 128 THEN 6
  ELSE 7

ilog2(v) ==
  LET tt == Shr(v, 16)
  IN  IF tt # 0
        THEN LET t == Shr(tt, 8)
             IN  IF t # 0 THEN UCount(24 + LogTable256(t))
                          ELSE UCount(16 + LogTable256(tt))
        ELSE LET t == Shr(v, 8)
             IN  IF t # 0 THEN UCount(8 + LogTable256(t))
                          ELSE UCount(LogTable256(v))

(***************************************************************************)
(* pack: writes the n least significant bits of bits at position s.        *)
(***************************************************************************)
\* pack that does not clear the byte it moves to (*p.pos = 0 left out)
pack_NoClear(s, bits, n) ==
  LET s1   == IF s.free = 0
                THEN [buf |-> s.buf, pos |-> s.pos + 1, free |-> 8]
                ELSE s
      mask == MASK(s1.free) % 256
  IN  IF s1.free < n
        THEN LET n1 == n - s1.free
                 b1 == [s1.buf EXCEPT ![s1.pos] = BitOr(@, BitAnd(Shr(bits, n1), mask))]
                 f1 == 8 - n1
             IN  [buf  |-> [b1 EXCEPT ![s1.pos + 1] = BitOr(@, Shl8(bits, f1))],
                  pos  |-> s1.pos + 1,
                  free |-> f1]
        ELSE LET f1 == s1.free - n
             IN  [buf  |-> [s1.buf EXCEPT ![s1.pos] = BitOr(@, BitAnd(bits * (2 ^ f1), mask))],
                  pos  |-> s1.pos,
                  free |-> f1]

pack(s, bits, n) ==
  LET s1   == IF s.free = 0
                THEN [buf |-> [s.buf EXCEPT ![s.pos + 1] = 0], pos |-> s.pos + 1, free |-> 8]
                ELSE s
      mask == MASK(s1.free) % 256
  IN  IF s1.free < n
        THEN LET n1 == n - s1.free
                 b1 == [s1.buf EXCEPT ![s1.pos] = BitOr(@, BitAnd(Shr(bits, n1), mask))]
                 f1 == 8 - n1
             IN  [buf  |-> [b1 EXCEPT ![s1.pos + 1] = BitOr(0, Shl8(bits, f1))],
                  pos  |-> s1.pos + 1,
                  free |-> f1]
        ELSE LET f1 == s1.free - n
             IN  [buf  |-> [s1.buf EXCEPT ![s1.pos] = BitOr(@, BitAnd(bits * (2 ^ f1), mask))],
                  pos  |-> s1.pos,
                  free |-> f1]

(***************************************************************************)
(* unpack: reads n bits at position p of the byte string bytes (0-based).  *)
(* Returns the position and the bits read.                                 *)
(***************************************************************************)
unpack(bytes, p, n) ==
  LET p1   == IF p.free = 0 THEN [pos |-> p.pos + 1, free |-> 8] ELSE p
      mask == MASK(n) % 256
  IN  IF p1.free < n
        THEN LET n1 == n - p1.free
                 b0 == BitAnd(bytes[p1.pos] * (2 ^ n1), mask)
             IN  [pos  |-> p1.pos + 1,
                  free |-> 8 - n1,
                  bits |-> BitOr(b0, Shr(bytes[p1.pos + 1], 8 - n1))]
        ELSE LET f1 == p1.free - n
             IN  [pos  |-> p1.pos,
                  free |-> f1,
                  bits |-> BitAnd(Shr(bytes[p1.pos], f1), mask)]

(***************************************************************************)
(* Look-up tables for tiny ([0,5]) and small ([6,125]) exponents.  The C   *)
(* arrays are 0-based: entry e of a table is T[e + 1] here.                *)
(***************************************************************************)
TINY_C_EXP == <<12, 8, 7, 6, 5, 4>>

TINY_EXP == <<16, 20, 24, 25, 26, 27>>

TINY_FREE == <<2, 2, 0, 0, 0, 0>>

SMALL_C_EXP == <<
  0,    0,    0,    0,    0,    0,
  960,  896,  832,  768,  704,  640,  576,  512,  496,  480,  464,  448,
  432,  416,  400,  384,  368,  352,  336,  320,  304,  288,  272,  256,
  252,  248,  244,  240,  236,  232,  228,  224,  220,  216,  212,  208,
  204,  200,  196,  192,  188,  184,  180,  176,  172,  168,  164,  160,
  156,  152,  148,  144,  140,  136,  132,  128,  127,  126,  125,  124,
  123,  122,  121,  120,  119,  118,  117,  116,  115,  114,  113,  112,
  111,  110,  109,  108,  107,  106,  105,  104,  103,  102,  101,  100,
  99,   98,   97,   96,   95,   94,   93,   92,   91,   90,   89,   88,
  87,   86,   85,   84,   83,   82,   81,   80,   79,   78,   77,   76,
  75,   74,   73,   72,   71,   70,   69,   68,   67,   66,   65,   64 >>

SMALL_EXP == <<
  0,    0,    0,    0,    0,    0,
  7168, 7232, 7296, 7360, 7424, 7488, 7552, 7616, 7680, 7696, 7712, 7728,
  7744, 7760, 7776, 7792, 7808, 7824, 7840, 7856, 7872, 7888, 7904, 7920,
  7936, 7940, 7944, 7948, 7952, 7956, 7960, 7964, 7968, 7972, 7976, 7980,
  7984, 7988, 7992, 7996, 8000, 8004, 8008, 8012, 8016, 8020, 8024, 8028,
  8032, 8036, 8040, 8044, 8048, 8052, 8056, 8060, 8064, 8065, 8066, 8067,
  8068, 8069, 8070, 8071, 8072, 8073, 8074, 8075, 8076, 8077, 8078, 8079,
  8080, 8081, 8082, 8083, 8084, 8085, 8086, 8087, 8088, 8089, 8090, 8091,
  8092, 8093, 8094, 8095, 8096, 8097, 8098, 8099, 8100, 8101, 8102, 8103,
  8104, 8105, 8106, 8107, 8108, 8109, 8110, 8111, 8112, 8113, 8114, 8115,
  8116, 8117, 8118, 8119, 8120, 8121, 8122, 8123, 8124, 8125, 8126, 8127 >>

\* a SMALL_FREE that leaves two free bits where the table has none
SMALL_FREE_Shifted == [e \in 1..126 |-> IF e <= 14 THEN 6 ELSE IF e <= 30 THEN 4 ELSE 2]

SMALL_FREE == <<
  0, 0, 0, 0, 0, 0,
  6, 6, 6, 6, 6, 6, 6, 6, 4, 4, 4, 4,
  4, 4, 4, 4, 4, 4, 4, 4, 4, 4, 4, 4,
  2, 2, 2, 2, 2, 2, 2, 2, 2, 2, 2, 2,
  2, 2, 2, 2, 2, 2, 2, 2, 2, 2, 2, 2,
  2, 2, 2, 2, 2, 2, 2, 2, 0, 0, 0, 0,
  0, 0, 0, 0, 0, 0, 0, 0, 0, 0, 0, 0,
  0, 0, 0, 0, 0, 0, 0, 0, 0, 0, 0, 0,
  0, 0, 0, 0, 0, 0, 0, 0, 0, 0, 0, 0,
  0, 0, 0, 0, 0, 0, 0, 0, 0, 0, 0, 0,
  0, 0, 0, 0, 0, 0, 0, 0, 0, 0, 0, 0 >>

(***************************************************************************)
(* decInfinitePackExponent: packs the absolute value exp of the adjusted   *)
(* exponent, T being the bit that encodes its sign, at s (s.free = 5).     *)
(*                                                                         *)
(* exp is a 32-bit uInt in the code; after `exp = ~exp` only the bytes     *)
(* (uByte)(exp >> k), k in {0,8,16,24}, are read.  ExpByte(e, T, k) is     *)
(* that byte: byte k of the offset exponent, complemented when T = 0.      *)
(***************************************************************************)
\* ExpByte without the complement (exp = ~exp left out)
ExpByte_NoComplement(e, T, k) == Shr(e, k) % 256

ExpByte(e, T, k) ==
  IF T THEN Shr(e, k) % 256 ELSE 255 - (Shr(e, k) % 256)

\* PackUnaryPrefix that packs eight bits once instead of looping
PackUnaryPrefix_Once(s, pad1, n2) ==
  [s |-> pack(s, pad1, 8), n2 |-> (n2 - 8) % 8]

\* the do-while loop that packs the unary prefix eight bits at a time
RECURSIVE PackUnaryPrefix(_, _, _)
PackUnaryPrefix(s, pad1, n2) ==
  LET s1 == pack(s, pad1, 8)
      m  == (n2 - 8) % 256
  IN  IF m >= 8 THEN PackUnaryPrefix(s1, pad1, m) ELSE [s |-> s1, n2 |-> m]

decInfinitePackExponent(exp, T, s) ==
  IF exp < 6
    THEN [buf  |-> [s.buf EXCEPT ![s.pos] =
                      BitOr(@, IF T THEN TINY_EXP[exp + 1] ELSE TINY_C_EXP[exp + 1])],
          pos  |-> s.pos,
          free |-> TINY_FREE[exp + 1]]
  ELSE IF exp < 126
    THEN LET u  == IF T THEN SMALL_EXP[exp + 1] ELSE SMALL_C_EXP[exp + 1]
             b1 == [s.buf EXCEPT ![s.pos] = BitOr(@, DECLET_HI(u))]
         IN  [buf  |-> [b1 EXCEPT ![s.pos + 1] = DECLET_LO(u)],
              pos  |-> s.pos + 1,
              free |-> SMALL_FREE[exp + 1]]
  ELSE
    LET e    == exp + 2
        n    == ilog2(e)
        pad1 == IF T THEN 255 ELSE 0
        pad2 == IF T THEN 254 ELSE 1
    IN  IF n < 8
          THEN pack(pack(s, pad2, n + 1), ExpByte(e, T, 0), n)
          ELSE LET r  == PackUnaryPrefix(s, pad1, n)
                   s2 == pack(r.s, pad2, r.n2 + 1)
               IN  IF n = 8
                     THEN pack(s2, ExpByte(e, T, 0), n)
                   ELSE IF n <= 16
                     THEN pack(pack(s2, ExpByte(e, T, 8), n - 8), ExpByte(e, T, 0), 8)
                   ELSE IF n <= 24
                     THEN pack(pack(pack(s2, ExpByte(e, T, 16), n - 16),
                                    ExpByte(e, T, 8), 8), ExpByte(e, T, 0), 8)
                   ELSE pack(pack(pack(pack(s2, ExpByte(e, T, 24), n - 24),
                                       ExpByte(e, T, 16), 8),
                                  ExpByte(e, T, 8), 8), ExpByte(e, T, 0), 8)

(***************************************************************************)
(* decInfiniteComplementMantissa: ten's complement of the coefficient,     *)
(* computed in place on the D2U(digits) units of the number.               *)
(***************************************************************************)
\* the carry loop: for (lp = lsu; *lp + 1 > DECDPUNMAX; ++lp) *lp = 0; ++*lp;
RECURSIVE ComplementCarry(_, _)
ComplementCarry(lsu, i) ==
  IF i >= DECNUMUNITS THEN lsu
  ELSE IF lsu[i] + 1 > DECDPUNMAX
    THEN ComplementCarry([lsu EXCEPT ![i] = 0], i + 1)
    ELSE [lsu EXCEPT ![i] = (@ + 1) % 65536]

\* decInfiniteComplementMantissa that leaves the coefficient as it is
decInfiniteComplementMantissa_Skip(decnum) == decnum

decInfiniteComplementMantissa(decnum) ==
  LET nu  == D2U(decnum.digits)
      neg == [i \in 0..(DECNUMUNITS - 1) |->
                IF i < nu THEN (999 - decnum.lsu[i]) % 65536 ELSE decnum.lsu[i]]
  IN  [decnum EXCEPT !.lsu = ComplementCarry(neg, 0)]

(***************************************************************************)
(* decShiftToMost: aligns the coefficient so that the most significant     *)
(* unit holds three digits; the exponent is left unchanged.                *)
(***************************************************************************)
\* the while loop of either branch; k = 1 shifts by one digit, k = 2 by two
RECURSIVE ShiftLoop(_, _, _)
ShiftLoop(lsu, rp, k) ==
  IF rp > 0
    THEN LET lp   == rp - 1
             quot == IF k = 1 THEN QUOT10(lsu[lp], 2) ELSE QUOT10(lsu[lp], 1)
             rem  == IF k = 1 THEN (lsu[lp] - X100(quot)) % 65536
                               ELSE (lsu[lp] - X10(quot)) % 65536
             l1   == [lsu EXCEPT ![rp] = (@ + quot) % 65536,
                                 ![lp] = IF k = 1 THEN X10(rem) % 65536
                                                  ELSE X100(rem) % 65536]
         IN  ShiftLoop(l1, lp, k)
    ELSE lsu

\* decShiftToMost that shifts the units but does not update the digit count
decShiftToMost_KeepDigits(decnum) ==
  LET rp == D2U(decnum.digits) - 1
  IN  IF decnum.lsu[rp] > 99 THEN decnum
      ELSE IF decnum.lsu[rp] > 9
        THEN [decnum EXCEPT !.lsu = ShiftLoop([@ EXCEPT ![rp] = X10(@)], rp, 1)]
        ELSE [decnum EXCEPT !.lsu = ShiftLoop([@ EXCEPT ![rp] = X100(@)], rp, 2)]

decShiftToMost(decnum) ==
  LET rp == D2U(decnum.digits) - 1
  IN  IF decnum.lsu[rp] > 99 THEN decnum
      ELSE IF decnum.lsu[rp] > 9
        THEN [decnum EXCEPT !.digits = @ + 1,
                            !.lsu = ShiftLoop([@ EXCEPT ![rp] = X10(@)], rp, 1)]
        ELSE [decnum EXCEPT !.digits = @ + 2,
                            !.lsu = ShiftLoop([@ EXCEPT ![rp] = X100(@)], rp, 2)]

(***************************************************************************)
(* decInfinitePackMantissa: packs the units of the coefficient as declets, *)
(* most significant first, skipping the units of trailing zeroes.          *)
(***************************************************************************)
\* SkipTrailingZeroUnits that skips nothing
SkipTrailingZeroUnits_None(lsu, lp, rp) == lp

\* while (lp < rp && *lp == 0) ++lp;
RECURSIVE SkipTrailingZeroUnits(_, _, _)
SkipTrailingZeroUnits(lsu, lp, rp) ==
  IF lp < rp /\ lsu[lp] = 0 THEN SkipTrailingZeroUnits(lsu, lp + 1, rp) ELSE lp

\* PackDeclet that does not move to the next byte (++p.pos left out)
PackDeclet_NoAdvance(s, u) ==
  LET s1  == IF s.free = 0
               THEN [buf |-> [s.buf EXCEPT ![s.pos + 1] = 0], pos |-> s.pos + 1, free |-> 8]
               ELSE s
      f1  == UCount(s1.free - 2)
      out == Shl16(BitAnd(u, 1023), f1)
      b1  == [s1.buf EXCEPT ![s1.pos] = BitOr(@, DECLET_HI(out))]
  IN  [buf  |-> [b1 EXCEPT ![s1.pos] = DECLET_LO(out)],
       pos  |-> s1.pos,
       free |-> f1]

\* PackDeclet that starts the next byte as soon as the current one is full
PackDeclet_EagerByte(s, u) ==
  LET s1  == IF s.free = 0
               THEN [buf |-> [s.buf EXCEPT ![s.pos + 1] = 0], pos |-> s.pos + 1, free |-> 8]
               ELSE s
      f1  == UCount(s1.free - 2)
      out == Shl16(BitAnd(u, 1023), f1)
      b1  == [s1.buf EXCEPT ![s1.pos] = BitOr(@, DECLET_HI(out))]
      b2  == [b1 EXCEPT ![s1.pos + 1] = DECLET_LO(out)]
  IN  IF f1 = 0
        THEN [buf |-> [b2 EXCEPT ![s1.pos + 2] = 0], pos |-> s1.pos + 2, free |-> 8]
        ELSE [buf |-> b2, pos |-> s1.pos + 1, free |-> f1]

\* PackDeclet that fills the byte of the cursor up and leaves no free bit
PackDeclet_ByteAligned(s, u) ==
  LET s1 == IF s.free = 0
              THEN [buf |-> [s.buf EXCEPT ![s.pos + 1] = 0], pos |-> s.pos + 1, free |-> 8]
              ELSE s
      b1 == [s1.buf EXCEPT ![s1.pos] = BitOr(@, DECLET_HI(u))]
  IN  [buf  |-> [b1 EXCEPT ![s1.pos + 1] = DECLET_LO(u)],
       pos  |-> s1.pos + 1,
       free |-> 0]

\* one iteration of the packing loop, for the unit u
PackDeclet(s, u) ==
  LET s1  == IF s.free = 0
               THEN [buf |-> [s.buf EXCEPT ![s.pos + 1] = 0], pos |-> s.pos + 1, free |-> 8]
               ELSE s
      f1  == UCount(s1.free - 2)
      out == Shl16(BitAnd(u, 1023), f1)
      b1  == [s1.buf EXCEPT ![s1.pos] = BitOr(@, DECLET_HI(out))]
  IN  [buf  |-> [b1 EXCEPT ![s1.pos + 1] = DECLET_LO(out)],
       pos  |-> s1.pos + 1,
       free |-> f1]

\* PackUnits that stops one unit early
RECURSIVE PackUnits_OffByOne(_, _, _, _)
PackUnits_OffByOne(lsu, lp, rp, s) ==
  IF rp > lp + 1
    THEN PackUnits_OffByOne(lsu, lp, rp - 1, PackDeclet(s, lsu[rp - 1]))
    ELSE s

RECURSIVE PackUnits(_, _, _, _)
PackUnits(lsu, lp, rp, s) ==
  IF rp > lp THEN PackUnits(lsu, lp, rp - 1, PackDeclet(s, lsu[rp - 1])) ELSE s

decInfinitePackMantissa(decnum, s) ==
  LET rp == D2U(decnum.digits)
      lp == SkipTrailingZeroUnits(decnum.lsu, 0, rp)
  IN  PackUnits(decnum.lsu, lp, rp, s)

(***************************************************************************)
(* decInfiniteFromNumber: encodes decnum into the buffer result.  Returns  *)
(* the length, the buffer and the (modified) number.                       *)
(***************************************************************************)
decNumberIsNegative(dn) == BitAnd(dn.bits, DECNEG) # 0

decNumberIsSpecial(dn) == BitAnd(dn.bits, DECSPECIAL) # 0

decNumberIsInfinite(dn) == BitAnd(dn.bits, DECINF) # 0

finiteDecNumberIsZero(dn) == dn.lsu[0] = 0 /\ dn.digits = 1

\* SpecialByte that does not look at the sign of a zero
SpecialByte_UnsignedZero(decnum) ==
  IF decNumberIsSpecial(decnum)
    THEN IF decNumberIsInfinite(decnum)
           THEN (IF decNumberIsNegative(decnum) THEN 0 ELSE 192)
           ELSE 224
    ELSE 128

\* the one-byte encoding of an infinity, a NaN or a zero
SpecialByte(decnum) ==
  IF decNumberIsSpecial(decnum)
    THEN IF decNumberIsInfinite(decnum)
           THEN (IF decNumberIsNegative(decnum) THEN 0 ELSE 192)
           ELSE 224
    ELSE (IF decNumberIsNegative(decnum) THEN 64 ELSE 128)

decInfiniteFromNumber(result, decnum) ==
  IF decNumberIsSpecial(decnum) \/ finiteDecNumberIsZero(decnum)
    THEN [len    |-> 1,
          buf    |-> [result EXCEPT ![0] = SpecialByte(decnum)],
          decnum |-> decnum]
  ELSE
    LET adj_exp == decnum.exponent + decnum.digits - 1
    IN  IF decNumberIsNegative(decnum)
          THEN LET s0 == [buf |-> [result EXCEPT ![0] = 0], pos |-> 0, free |-> 5]
                   T  == adj_exp < 0
                   s1 == decInfinitePackExponent(IF T THEN -adj_exp ELSE adj_exp, T, s0)
                   d1 == decShiftToMost(decnum)
                   d2 == decInfiniteComplementMantissa(d1)
                   s2 == decInfinitePackMantissa(d2, s1)
               IN  [len |-> s2.pos + 1, buf |-> s2.buf, decnum |-> d2]
          ELSE LET s0 == [buf |-> [result EXCEPT ![0] = 128], pos |-> 0, free |-> 5]
                   T  == adj_exp >= 0
                   s1 == decInfinitePackExponent(IF T THEN adj_exp ELSE -adj_exp, T, s0)
                   d1 == decShiftToMost(decnum)
                   s2 == decInfinitePackMantissa(d1, s1)
               IN  [len |-> s2.pos + 1, buf |-> s2.buf, decnum |-> d1]

(***************************************************************************)
(* decInfiniteReadUnaryPrefix1 / decInfiniteReadUnaryPrefix0: count the    *)
(* consecutive bits equal to the fourth bit of the encoding.  bytes is the *)
(* input (0-based), end its length.  Returns the count n (0 when the       *)
(* prefix is too long or the input is exhausted) and the new position.     *)
(* bit = 1 gives ReadUnaryPrefix1, bit = 0 gives ReadUnaryPrefix0.         *)
(***************************************************************************)
BitAt(byte, i) == Shr(byte, i) % 2

\* while (p->pos < end && *p->pos == 0xFF (or 0x00)) { n += 8; ++p->pos; }
RECURSIVE SkipWholeBytes(_, _, _, _, _)
SkipWholeBytes(bytes, pos, end, n, bit) ==
  IF pos < end /\ bytes[pos] = (IF bit = 1 THEN 255 ELSE 0)
    THEN SkipWholeBytes(bytes, pos + 1, end, UCount(n + 8), bit)
    ELSE [pos |-> pos, n |-> n]

\* while (((*p->pos >> p->free) & 1) == bit) { ++n; --p->free; }
RECURSIVE CountBits(_, _, _, _)
CountBits(byte, free, n, bit) ==
  IF free >= 0 /\ BitAt(byte, free) = bit
    THEN CountBits(byte, free - 1, UCount(n + 1), bit)
    ELSE [free |-> free, n |-> n]

ReadUnaryPrefix(bytes, p, end, bit) ==
  IF BitAnd(bytes[p.pos], 31) = (IF bit = 1 THEN 31 ELSE 0)
    THEN LET w == SkipWholeBytes(bytes, p.pos + 1, end, 5, bit)
         IN  IF w.pos = end THEN [n |-> 0, pos |-> w.pos, free |-> p.free]
             ELSE LET c == CountBits(bytes[w.pos], 7, w.n, bit)
                  IN  IF c.n > DECINF_EXPSIZE
                        THEN [n |-> 0, pos |-> w.pos, free |-> c.free]
                        ELSE [n |-> c.n, pos |-> w.pos, free |-> c.free]
    ELSE LET c == CountBits(bytes[p.pos], 3, 1, bit)
         IN  [n |-> c.n, pos |-> p.pos, free |-> c.free]

decInfiniteReadUnaryPrefix1(bytes, p, end) == ReadUnaryPrefix(bytes, p, end, 1)

decInfiniteReadUnaryPrefix0(bytes, p, end) == ReadUnaryPrefix(bytes, p, end, 0)

(***************************************************************************)
(* decInfiniteUnpackExponent: decodes the adjusted exponent into           *)
(* decnum.exponent.  ok = FALSE stands for the returned p.pos = 0.         *)
(***************************************************************************)
\* reads the n bits of the exponent, at most eight at a time
UnpackExponentBits(bytes, p, n) ==
  IF n <= 8
    THEN LET u1 == unpack(bytes, p, n)
         IN  [p |-> u1, e |-> u1.bits]
  ELSE IF n <= 16
    THEN LET u1 == unpack(bytes, p, n - 8)
             u2 == unpack(bytes, u1, 8)
         IN  [p |-> u2, e |-> u1.bits * 256 + u2.bits]
  ELSE IF n <= 24
    THEN LET u1 == unpack(bytes, p, n - 16)
             u2 == unpack(bytes, u1, 8)
             u3 == unpack(bytes, u2, 8)
         IN  [p |-> u3, e |-> (u1.bits * 256 + u2.bits) * 256 + u3.bits]
  ELSE LET u1 == unpack(bytes, p, n - 24)
           u2 == unpack(bytes, u1, 8)
           u3 == unpack(bytes, u2, 8)
           u4 == unpack(bytes, u3, 8)
       IN  [p |-> u4, e |-> ((u1.bits * 256 + u2.bits) * 256 + u3.bits) * 256 + u4.bits]

\* RestoreExponent that does not cancel the offset
RestoreExponent_NoOffset(e, n) == e + (2 ^ n)

\* e |= (1 << n); e -= 2;
RestoreExponent(e, n) == e + (2 ^ n) - 2

\* if (e > 999999999) error; decnum->exponent = esign ? -e : e;
StoreExponent(decnum, esign, p, e) ==
  IF e > 999999999
    THEN [ok |-> FALSE, pos |-> 0, free |-> p.free, decnum |-> decnum]
    ELSE [ok     |-> TRUE,
          pos    |-> p.pos,
          free   |-> p.free,
          decnum |-> [decnum EXCEPT !.exponent = IF esign # 0 THEN -e ELSE e]]

\* ComplementExponent that takes the bits as they are for either T
ComplementExponent_Plain(decnum, T, esign, n, x) ==
  StoreExponent(decnum, esign, x.p, RestoreExponent(x.e, n))

\* if (!T) e = ~e & MASK(n); then the leading one and the offset
ComplementExponent(decnum, T, esign, n, x) ==
  StoreExponent(decnum, esign, x.p,
                RestoreExponent(IF T = 0 THEN MASK(n) - BitAnd(x.e, MASK(n)) ELSE x.e, n))

\* the checks on the prefix r read, then the bits of the exponent
UnpackExponentAfterPrefix(decnum, bytes, end, T, esign, r) ==
  IF r.n = 0 \/ ((end - r.pos) * 8) - (8 - r.free) < r.n
    THEN [ok |-> FALSE, pos |-> 0, free |-> r.free, decnum |-> decnum]
    ELSE ComplementExponent(decnum, T, esign, r.n,
           UnpackExponentBits(bytes, [pos |-> r.pos, free |-> r.free], r.n))

\* T is bit 4 of the first byte, esign = (T << 3) ^ (first byte & 0x80)
UnpackExponentOfSign(decnum, bytes, p, end, T) ==
  UnpackExponentAfterPrefix(decnum, bytes, end, T,
    BitXor(Shl8(T, 3), BitAnd(bytes[p.pos], 128)),
    IF T # 0 THEN decInfiniteReadUnaryPrefix1(bytes, p, end)
             ELSE decInfiniteReadUnaryPrefix0(bytes, p, end))

decInfiniteUnpackExponent(decnum, bytes, p, end) ==
  UnpackExponentOfSign(decnum, bytes, p, end, BitAnd(bytes[p.pos], 16))

(***************************************************************************)
(* decInfiniteUnpackMantissa: decodes the declets that follow the exponent *)
(* into the units of decnum.  Returns the number n of declets (0 for an    *)
(* error) and the number as the function leaves it.  oob is the value of   *)
(* the unit read one place before lsu when there is no whole declet left   *)
(* (n = 0), a read outside the array.                                      *)
(***************************************************************************)
\* reads one declet at p
ReadDeclet(bytes, p) ==
  LET p1 == IF p.free = 0 THEN [pos |-> p.pos + 1, free |-> 8] ELSE p
      hi == BitAnd(bytes[p1.pos], MASK(p1.free))
      lo == bytes[p1.pos + 1]
      f1 == UCount(p1.free - 2)
  IN  [pos |-> p1.pos + 1, free |-> f1, declet |-> Shr(hi * 256 + lo, f1)]

\* UnpackDeclets that stores any ten bits as a unit
RECURSIVE UnpackDeclets_NoRangeCheck(_, _, _, _, _)
UnpackDeclets_NoRangeCheck(bytes, p, lsu, i, n) ==
  IF i < n
    THEN LET r == ReadDeclet(bytes, p)
         IN  UnpackDeclets_NoRangeCheck(bytes, [pos |-> r.pos, free |-> r.free],
                                        [lsu EXCEPT ![n - 1 - i] = r.declet], i + 1, n)
    ELSE [ok |-> TRUE, lsu |-> lsu]

\* the for loop: unit i of n is stored at lsu[n - 1 - i]
RECURSIVE UnpackDeclets(_, _, _, _, _)
UnpackDeclets(bytes, p, lsu, i, n) ==
  IF i < n
    THEN LET r == ReadDeclet(bytes, p)
         IN  IF r.declet > 999 THEN [ok |-> FALSE, lsu |-> lsu]
             ELSE UnpackDeclets(bytes, [pos |-> r.pos, free |-> r.free],
                                [lsu EXCEPT ![n - 1 - i] = r.declet], i + 1, n)
    ELSE [ok |-> TRUE, lsu |-> lsu]

\* CheckUnits that accepts a least significant unit of zero
CheckUnits_NoLowCheck(d2, neg, ok, n, ms) ==
  IF ~ok THEN [n |-> 0, decnum |-> d2]
  ELSE IF neg
    THEN IF ms > 899 THEN [n |-> 0, decnum |-> d2]
         ELSE [n |-> n, decnum |-> decInfiniteComplementMantissa(d2)]
    ELSE IF ms = 0 THEN [n |-> 0, decnum |-> d2]
         ELSE [n |-> n, decnum |-> d2]

\* the checks on the units read: least significant unit, then most
\* significant unit ms, by sign
CheckUnits(d2, neg, ok, n, ms) ==
  IF ~ok THEN [n |-> 0, decnum |-> d2]
  ELSE IF d2.lsu[0] = 0 THEN [n |-> 0, decnum |-> d2]
  ELSE IF neg
    THEN IF ms > 899 THEN [n |-> 0, decnum |-> d2]
         ELSE [n |-> n, decnum |-> decInfiniteComplementMantissa(d2)]
    ELSE IF ms = 0 THEN [n |-> 0, decnum |-> d2]
         ELSE [n |-> n, decnum |-> d2]

\* u is the outcome of the for loop over the n declets
StoreUnits(d1, u, n, oob) ==
  CheckUnits([d1 EXCEPT !.lsu = u.lsu], decNumberIsNegative(d1), u.ok, n,
             IF n = 0 THEN oob ELSE u.lsu[n - 1])

\* the case n == 1: one declet, complemented at once if negative
UnpackSingleDeclet(d1, declet) ==
  IF declet = 0 \/ declet > 999 THEN [n |-> 0, decnum |-> d1]
  ELSE [n      |-> 1,
        decnum |-> [d1 EXCEPT !.lsu[0] =
                      IF decNumberIsNegative(d1) THEN 1000 - declet ELSE declet]]

UnpackMantissaUnits(decnum, bytes, p, oob, n) ==
  IF n = 1
    THEN UnpackSingleDeclet([decnum EXCEPT !.digits = 3], ReadDeclet(bytes, p).declet)
  ELSE IF 3 * n > DECNUMDIGITS
    THEN [n |-> 0, decnum |-> [decnum EXCEPT !.digits = 3 * n]]
  ELSE StoreUnits([decnum EXCEPT !.digits = 3 * n],
                  UnpackDeclets(bytes, p, decnum.lsu, 0, n), n, oob)

decInfiniteUnpackMantissa(decnum, bytes, p, end, oob) ==
  UnpackMantissaUnits(decnum, bytes, p, oob, (8 * (end - p.pos) - (8 - p.free)) \div 10)

(***************************************************************************)
(* decInfiniteToNumber: decodes the len bytes of bytes into decnum.        *)
(* ok = FALSE stands for the null pointer returned on error.               *)
(***************************************************************************)
decNumberZero(decnum) ==
  [decnum EXCEPT !.bits = 0, !.exponent = 0, !.digits = 1, !.lsu[0] = 0]

\* SpecialBits that decodes minus zero as plus zero
SpecialBits_PlusZero(byte) ==
  IF byte = 128 THEN 0
  ELSE IF byte = 64 THEN 0
  ELSE IF byte = 0 THEN DECNEG + DECINF
  ELSE IF byte = 192 THEN DECINF
  ELSE IF byte = 224 THEN DECNAN
  ELSE -1

\* the switch on the single byte of a zero or special number
SpecialBits(byte) ==
  IF byte = 128 THEN 0
  ELSE IF byte = 64 THEN DECNEG
  ELSE IF byte = 0 THEN DECNEG + DECINF
  ELSE IF byte = 192 THEN DECINF
  ELSE IF byte = 224 THEN DECNAN
  ELSE -1

\* UnadjustedExponent that is off by one
UnadjustedExponent_OffByOne(decnum) == decnum.exponent - decnum.digits

\* decnum->exponent = decnum->exponent - decnum->digits + 1;
UnadjustedExponent(decnum) == decnum.exponent - decnum.digits + 1

\* the adjusted exponent becomes the exponent once the digits are known
ToNumberResult(m) ==
  IF m.n # 0
    THEN [ok     |-> TRUE,
          decnum |-> [m.decnum EXCEPT !.exponent = UnadjustedExponent(m.decnum)]]
    ELSE [ok |-> FALSE, decnum |-> m.decnum]

\* x is the outcome of decInfiniteUnpackExponent
ToNumberMantissa(x, bytes, len, oob) ==
  IF ~x.ok THEN [ok |-> FALSE, decnum |-> x.decnum]
  ELSE ToNumberResult(decInfiniteUnpackMantissa(x.decnum, bytes,
                        [pos |-> x.pos, free |-> x.free], len, oob))

\* ToNumberFinite without the check for an exponent of minus zero
ToNumberFinite_NoZeroCheck(d1, h, len, bytes, oob) ==
  ToNumberMantissa(decInfiniteUnpackExponent(d1, bytes, [pos |-> 0, free |-> 5], len),
                   bytes, len, oob)

\* d1 carries the sign; h is the first byte less its two low bits
ToNumberFinite(d1, h, len, bytes, oob) ==
  IF h = 140 \/ h = 16 THEN [ok |-> FALSE, decnum |-> d1]
  ELSE ToNumberMantissa(decInfiniteUnpackExponent(d1, bytes, [pos |-> 0, free |-> 5], len),
                        bytes, len, oob)

\* sign is the first byte's three high bits
ToNumberOfSign(sign, len, bytes, decnum, oob) ==
  IF sign # 0 /\ sign # 128 THEN [ok |-> FALSE, decnum |-> decnum]
  ELSE ToNumberFinite([decnum EXCEPT !.bits = IF sign = 0 THEN DECNEG ELSE 0],
                      BitAnd(bytes[0], 252), len, bytes, oob)

\* the one-byte encodings: zeros, infinities and NaN
ToNumberSpecial(z, b) ==
  IF b = -1 THEN [ok |-> FALSE, decnum |-> z]
  ELSE [ok |-> TRUE, decnum |-> [z EXCEPT !.bits = b]]

decInfiniteToNumber(len, bytes, decnum, oob) ==
  IF len = 1
    THEN ToNumberSpecial(decNumberZero(decnum), SpecialBits(bytes[0]))
    ELSE ToNumberOfSign(BitAnd(bytes[0], 224), len, bytes, decnum, oob)

(***************************************************************************)
(* Bounds of the model.                                                    *)
(***************************************************************************)
\* largest number of units of a coefficient in the encode/decode runs
MaxUnits == 3

\* largest number of units of a coefficient in the runs that encode a pair
MaxPairUnits == 2

(***************************************************************************)
(* The decNumbers the callers pass in.  A decNumber is a record            *)
(* [bits, digits, exponent, lsu], lsu being the array of DECNUMUNITS       *)
(* units, least significant first; the units above D2U(digits) are unused. *)
(***************************************************************************)
NDigits(u) == IF u > 99 THEN 3 ELSE IF u > 9 THEN 2 ELSE 1

\* sequences of 1..k units over the set U whose most significant unit is not 0
UnitSeqs(U, k) ==
  UNION { { us \in [0..(n - 1) -> U] : us[n - 1] # 0 } : n \in 1..k }

Units1(u) == [i \in 0..0 |-> u]

Units2(lo, hi) == [i \in 0..1 |-> IF i = 0 THEN lo ELSE hi]

UnitArray(us) ==
  [i \in 0..(DECNUMUNITS - 1) |-> IF i \in DOMAIN us THEN us[i] ELSE 0]

\* the finite non-zero number with the given sign, units and adjusted exponent
MkFinite(neg, us, adj) ==
  LET n == Cardinality(DOMAIN us)
      d == 3 * (n - 1) + NDigits(us[n - 1])
  IN  [bits     |-> IF neg THEN DECNEG ELSE 0,
       digits   |-> d,
       exponent |-> adj - d + 1,
       lsu      |-> UnitArray(us)]

\* zeros, infinities and NaNs (quiet and signaling, with and without payload)
MkSpecial(bits, e, u) ==
  [bits |-> bits, digits |-> 1, exponent |-> e, lsu |-> UnitArray(Units1(u))]

SpecialNumbers ==
  { MkSpecial(b, e, 0) : b \in {0, DECNEG}, e \in {0, -2, 3} }
    \cup { MkSpecial(b + k, 0, u) : b \in {0, DECNEG}, k \in {DECINF}, u \in {0} }
    \cup { MkSpecial(b + k, 0, u) : b \in {0, DECNEG}, k \in {DECNAN, DECSNAN}, u \in {0, 7} }

\* adjusted exponents: around zero and at every boundary of the exponent code
ExpMagnitudes ==
  {0, 1, 2, 5, 6, 13, 14, 29, 30, 61, 62, 125, 126, 253, 254, 509, 510,
   65533, 65534, 16777213, 16777214, 999999999}

AdjExps == ExpMagnitudes \cup { -e : e \in ExpMagnitudes }

UnitSet == {0, 1, 10, 999}

\* two-unit coefficients whose low unit takes every value
SweepCoeffs == { Units2(u, m) : u \in 0..DECDPUNMAX, m \in {1, 12} }

\* the numbers of the examples in the documentation and the tests:
\* 1.9, -1.00, -199.8, -1.23 and -12.345
DocNumbers ==
  { MkFinite(FALSE, Units1(19), 0), MkFinite(TRUE, Units1(100), 0),
    MkFinite(TRUE, Units2(998, 1), 2), MkFinite(TRUE, Units1(123), 0),
    MkFinite(TRUE, Units2(345, 12), 1) }

FiniteNumbers ==
  { MkFinite(neg, us, adj) : neg \in BOOLEAN, us \in UnitSeqs(UnitSet, MaxUnits), adj \in AdjExps }
    \cup { MkFinite(neg, us, adj) : neg \in BOOLEAN, us \in SweepCoeffs, adj \in {0, -7} }
    \cup DocNumbers

Numbers == FiniteNumbers \cup SpecialNumbers

PairSpecialNumbers ==
  { MkSpecial(b, 0, 0) : b \in {0, DECNEG, DECINF, DECNEG + DECINF, DECNAN, DECNEG + DECNAN} }
    \cup { MkSpecial(0, -2, 0), MkSpecial(DECSNAN, 0, 7) }

PairUnitSet == {0, 10, 999}

PairCoeffs == UnitSeqs(PairUnitSet, MaxPairUnits) \cup {Units1(1), Units1(5)}

PairAdjExps == {-126, -125, -6, -1, 0, 5, 6, 999999999}

PairNumbers ==
  { MkFinite(neg, us, adj) :
      neg \in BOOLEAN, us \in PairCoeffs, adj \in PairAdjExps }
    \cup PairSpecialNumbers

\* what an output buffer holds before the call: it is not initialised
Fills == {0, 255}

FreshBuffer(fill) == [i \in 0..(DECINF_MAXSIZE - 1) |-> fill]

\* what the decNumber given to the decoder holds before the call
StaleNumber ==
  [bits |-> DECNEG, digits |-> 5, exponent |-> 7,
   lsu |-> [i \in 0..(DECNUMUNITS - 1) |-> 111]]

\* values of the unit read before the start of lsu
OobUnits == {0, 900}

(***************************************************************************)
(* State.  x and y are two encode calls: arg is the number as the caller   *)
(* built it, decnum the caller's number (the callee works on it), buf the  *)
(* output buffer and len the returned length (0 before the call).  out is  *)
(* the decNumber passed to the decoder and ret what the decoder returned.  *)
(***************************************************************************)
VARIABLES pc, x, y, out, ret

vars == <<pc, x, y, out, ret>>

NewCall(dn, fill) == [arg |-> dn, decnum |-> dn, buf |-> FreshBuffer(fill), len |-> 0]

NoCall == NewCall(MkSpecial(0, 0, 0), 0)

Init ==
  /\ pc = "start"
  /\ x \in { NewCall(dn, f) : dn \in Numbers, f \in Fills }
  /\ y = NoCall
  /\ out = StaleNumber
  /\ ret = "none"

InitPair ==
  /\ pc = "start"
  /\ x \in { NewCall(dn, 255) : dn \in PairNumbers }
  /\ y \in { NewCall(dn, 0) : dn \in PairNumbers }
  /\ out = StaleNumber
  /\ ret = "none"

\* the result of decInfiniteFromNumber on the call c
Called(c) ==
  LET r == decInfiniteFromNumber(c.buf, c.decnum)
  IN  [c EXCEPT !.decnum = r.decnum, !.buf = r.buf, !.len = r.len]

Encode ==
  /\ pc = "start"
  /\ x' = Called(x)
  /\ pc' = "encoded"
  /\ UNCHANGED <<y, out, ret>>

EncodeSecond ==
  /\ pc = "encoded"
  /\ y' = Called(y)
  /\ pc' = "both"
  /\ UNCHANGED <<x, out, ret>>

Decode ==
  /\ pc = "encoded"
  /\ \E oob \in OobUnits :
       LET r == decInfiniteToNumber(x.len, x.buf, out, oob)
       IN  /\ out' = r.decnum
           /\ ret' = IF r.ok THEN "ok" ELSE "fail"
  /\ pc' = "decoded"
  /\ UNCHANGED <<x, y>>

Next == Encode \/ Decode

Spec == Init /\ [][Next]_vars

NextPair == Encode \/ EncodeSecond

SpecPair == InitPair /\ [][NextPair]_vars

(***************************************************************************)
(* The mathematical reading of a decNumber, taken from its fields and not  *)
(* from the codec: class, sign, significant digits and adjusted exponent.  *)
(***************************************************************************)
IsNaN(dn) == BitAnd(dn.bits, DECNAN + DECSNAN) # 0

IsInf(dn) == ~IsNaN(dn) /\ BitAnd(dn.bits, DECINF) # 0

IsFinite(dn) == BitAnd(dn.bits, DECSPECIAL) = 0

IsNeg(dn) == dn.bits >= DECNEG

UnitDigits(u) == <<u \div 100, (u \div 10) % 10, u % 10>>

RECURSIVE UnitsDigits(_, _)
UnitsDigits(lsu, n) ==
  IF n = 0 THEN <<>> ELSE UnitDigits(lsu[n - 1]) \o UnitsDigits(lsu, n - 1)

\* the decimal digits of the coefficient, most significant first
CoefDigits(dn) ==
  LET n == D2U(dn.digits)
  IN  SubSeq(UnitsDigits(dn.lsu, n), 3 * n - dn.digits + 1, 3 * n)

RECURSIVE StripTrailing(_)
StripTrailing(ds) ==
  IF ds # <<>> /\ ds[Len(ds)] = 0 THEN StripTrailing(SubSeq(ds, 1, Len(ds) - 1)) ELSE ds

RECURSIVE StripLeading(_)
StripLeading(ds) ==
  IF ds # <<>> /\ ds[1] = 0 THEN StripLeading(Tail(ds)) ELSE ds

IsZero(dn) == IsFinite(dn) /\ StripLeading(CoefDigits(dn)) = <<>>

IsFiniteNonZero(dn) == IsFinite(dn) /\ ~IsZero(dn)

\* significant digits d1 d2 ... of the value d1.d2... x 10^SciExp
Significand(dn) == StripTrailing(StripLeading(CoefDigits(dn)))

SciExp(dn) == dn.exponent + Len(StripLeading(CoefDigits(dn))) - 1

\* order of digit strings that stand for d1.d2d3..., without trailing zeros
DigitsLess(s, t) ==
  \/ Len(s) < Len(t) /\ \A i \in 1..Len(s) : s[i] = t[i]
  \/ \E k \in 1..Len(s) :
       /\ k <= Len(t)
       /\ s[k] < t[k]
       /\ \A i \in 1..(k - 1) : s[i] = t[i]

MagnitudeLess(a, b) ==
  \/ SciExp(a) < SciExp(b)
  \/ SciExp(a) = SciExp(b) /\ DigitsLess(Significand(a), Significand(b))

\* -Infinity < negative finite < zero < positive finite < +Infinity < NaN
Rank(dn) ==
  IF IsNaN(dn) THEN 5
  ELSE IF IsInf(dn) THEN (IF IsNeg(dn) THEN 0 ELSE 4)
  ELSE IF IsZero(dn) THEN 2
  ELSE IF IsNeg(dn) THEN 1 ELSE 3

NumLess(a, b) ==
  \/ Rank(a) < Rank(b)
  \/ Rank(a) = 3 /\ Rank(b) = 3 /\ MagnitudeLess(a, b)
  \/ Rank(a) = 1 /\ Rank(b) = 1 /\ MagnitudeLess(b, a)

NumEq(a, b) ==
  /\ Rank(a) = Rank(b)
  /\ Rank(a) \in {1, 3} => SciExp(a) = SciExp(b) /\ Significand(a) = Significand(b)

\* the bytes an encode call returned, as a sequence
Encoding(c) == [i \in 1..c.len |-> c.buf[i - 1]]

\* unsigned byte-lexicographic order, a proper prefix first
LexLess(s, t) ==
  \/ Len(s) < Len(t) /\ \A i \in 1..Len(s) : s[i] = t[i]
  \/ \E k \in 1..Len(s) :
       /\ k <= Len(t)
       /\ s[k] < t[k]
       /\ \A i \in 1..(k - 1) : s[i] = t[i]

(***************************************************************************)
(* C1: for every two numbers a and b other than the pair (-0, +0), a < b   *)
(* in the order -Infinity < negative finite < zero < positive finite <     *)
(* +Infinity < NaN if and only if the encoding of a precedes the encoding  *)
(* of b in unsigned byte-lexicographic order.                              *)
(***************************************************************************)
C1_OrderPreserved ==
  (pc = "both" /\ ~(IsZero(x.arg) /\ IsZero(y.arg) /\ IsNeg(x.arg) /\ ~IsNeg(y.arg)))
    => (NumLess(x.arg, y.arg) <=> LexLess(Encoding(x), Encoding(y)))

\* two negative numbers with the same exponent, the smaller with more digits
C1_Witness ==
  /\ pc = "both"
  /\ Rank(x.arg) = 1 /\ Rank(y.arg) = 1
  /\ SciExp(x.arg) = SciExp(y.arg)
  /\ Len(Significand(x.arg)) > Len(Significand(y.arg))
  /\ NumLess(x.arg, y.arg)
  /\ LexLess(Encoding(x), Encoding(y))

(***************************************************************************)
(* C2: two finite non-zero numbers are numerically equal if and only if    *)
(* their encodings are the same bytes; 1.0, 1.00 and 1.000 encode as 1.    *)
(***************************************************************************)
C2_CanonicalEncoding ==
  (pc = "both" /\ IsFiniteNonZero(x.arg) /\ IsFiniteNonZero(y.arg))
    => (NumEq(x.arg, y.arg) <=> Encoding(x) = Encoding(y))

\* 1.0 and 1.0000: equal values whose coefficients differ by a unit of zeros
C2_Witness ==
  /\ pc = "both"
  /\ x.arg.digits = 2 /\ x.arg.exponent = -1 /\ x.arg.lsu[0] = 10 /\ ~IsNeg(x.arg)
  /\ y.arg.digits = 5 /\ y.arg.exponent = -4 /\ y.arg.lsu[0] = 0 /\ y.arg.lsu[1] = 10
  /\ ~IsNeg(y.arg)
  /\ Encoding(x) = Encoding(y)

(***************************************************************************)
(* C3 as stated: -0 and +0 are equal in the order, so their encodings are  *)
(* the same byte string.                                                   *)
(***************************************************************************)
C3_ZerosEncodeAlike ==
  (pc = "both" /\ IsZero(x.arg) /\ IsZero(y.arg)) => Encoding(x) = Encoding(y)

(***************************************************************************)
(* C3 amended: two zeros have the same encoding if and only if they have   *)
(* the same sign; the encoding of -0 differs from and precedes the         *)
(* encoding of +0.                                                         *)
(***************************************************************************)
C3_ZerosEncodeBySign ==
  (pc = "both" /\ IsZero(x.arg) /\ IsZero(y.arg))
    => /\ (Encoding(x) = Encoding(y)) <=> (IsNeg(x.arg) <=> IsNeg(y.arg))
       /\ (IsNeg(x.arg) /\ ~IsNeg(y.arg)) => LexLess(Encoding(x), Encoding(y))

C3_Witness ==
  /\ pc = "both"
  /\ IsZero(x.arg) /\ IsNeg(x.arg)
  /\ IsZero(y.arg) /\ ~IsNeg(y.arg)
  /\ Encoding(x) # Encoding(y)

(***************************************************************************)
(* The padded coefficient of a number, in decimal digits, and what the     *)
(* format says is written for it.                                          *)
(***************************************************************************)
\* the smallest multiple of 3 that is >= d
Padded(d) == ((d + 2) \div 3) * 3

Zeros(n) == [i \in 1..n |-> 0]

PaddedDigits(dn) == CoefDigits(dn) \o Zeros(Padded(dn.digits) - dn.digits)

\* number of all-zero 3-digit groups at the least significant end
RECURSIVE TrailingZeroGroups(_)
TrailingZeroGroups(ds) ==
  IF Len(ds) >= 3 /\ ds[Len(ds)] = 0 /\ ds[Len(ds) - 1] = 0 /\ ds[Len(ds) - 2] = 0
    THEN 1 + TrailingZeroGroups(SubSeq(ds, 1, Len(ds) - 3))
    ELSE 0

\* 10^k - C for the k digits ds of C, C # 0
TenComplement(ds) ==
  LET j == CHOOSE j \in 1..Len(ds) : ds[j] # 0 /\ \A i \in (j + 1)..Len(ds) : ds[i] = 0
  IN  [i \in 1..Len(ds) |-> IF i < j THEN 9 - ds[i] ELSE IF i = j THEN 10 - ds[i] ELSE 0]

\* the digits that are encoded for dn
EncodedDigits(dn) ==
  IF IsNeg(dn) THEN TenComplement(PaddedDigits(dn)) ELSE PaddedDigits(dn)

\* the values of the 3-digit groups of ds, most significant first
Groups(ds) ==
  [g \in 1..(Len(ds) \div 3) |-> 100 * ds[3 * g - 2] + 10 * ds[3 * g - 1] + ds[3 * g]]

RECURSIVE BitLen(_)
BitLen(v) == IF v = 0 THEN 0 ELSE 1 + BitLen(v \div 2)

\* the w low bits of v, most significant first
ToBits(v, w) == [i \in 1..w |-> (v \div (2 ^ (w - i))) % 2]

Ones(n) == [i \in 1..n |-> 1]

Complemented(bs) == [i \in 1..Len(bs) |-> 1 - bs[i]]

AbsAdj(dn) == IF SciExp(dn) < 0 THEN -SciExp(dn) ELSE SciExp(dn)

\* T = 1 iff (negative and adjExp < 0) or (positive and adjExp >= 0)
TBit(dn) ==
  IF (IsNeg(dn) /\ SciExp(dn) < 0) \/ (~IsNeg(dn) /\ SciExp(dn) >= 0) THEN 1 ELSE 0

\* the exponent field by the general algorithm, T bit included: 2N-1 bits
ExponentField(E, T) ==
  LET N   == BitLen(E + 2)
      pre == Ones(N - 1) \o <<0>> \o ToBits(E + 2, N - 1)
  IN  IF T = 1 THEN pre ELSE Complemented(pre)

RECURSIVE DecletBits(_)
DecletBits(gs) == IF gs = <<>> THEN <<>> ELSE ToBits(Head(gs), 10) \o DecletBits(Tail(gs))

\* sign, pad, exponent field and one declet per group, then zeros to the byte
LayoutBits(dn) ==
  LET body == (IF IsNeg(dn) THEN <<0, 0>> ELSE <<1, 0>>) \o <<0>>
                \o ExponentField(AbsAdj(dn), TBit(dn))
                \o DecletBits(Groups(EncodedDigits(dn)))
  IN  body \o Zeros((8 - (Len(body) % 8)) % 8)

RECURSIVE BytesBits(_)
BytesBits(bs) == IF bs = <<>> THEN <<>> ELSE ToBits(Head(bs), 8) \o BytesBits(Tail(bs))

OutputBits(c) == BytesBits(Encoding(c))

\* number of whole declets that follow the exponent field in the output
DecletsEmitted(c) == (8 * c.len - (2 + 2 * BitLen(AbsAdj(c.arg) + 2))) \div 10

(***************************************************************************)
(* C4: decoding the encoding of a finite non-zero number succeeds and      *)
(* yields a finite number with the same sign and the same numeric value.   *)
(***************************************************************************)
C4_RoundTripValue ==
  (pc = "decoded" /\ IsFiniteNonZero(x.arg))
    => /\ ret = "ok"
       /\ out.bits = (IF IsNeg(x.arg) THEN DECNEG ELSE 0)
       /\ NumEq(out, x.arg)

\* a negative number of two units that needs padding, with a large exponent
C4_Witness ==
  /\ pc = "decoded"
  /\ IsNeg(x.arg) /\ x.arg.digits = 4 /\ x.arg.lsu[0] = 999
  /\ SciExp(x.arg) = 999999999
  /\ ret = "ok"
  /\ NumEq(out, x.arg)

(***************************************************************************)
(* C5 as stated: the decoded coefficient has exactly the padded length of  *)
(* the encoded number, and the decoded exponent is the exponent of the     *)
(* number minus the number of zeros added by the padding.                  *)
(***************************************************************************)
C5_PaddedLength ==
  (pc = "decoded" /\ IsFiniteNonZero(x.arg))
    => /\ out.digits = Padded(x.arg.digits)
       /\ out.exponent = x.arg.exponent - (Padded(x.arg.digits) - x.arg.digits)

(***************************************************************************)
(* C5 amended: the decoded coefficient has the padded length less three    *)
(* digits for each all-zero group at the least significant end of the      *)
(* padded coefficient, and the decoded exponent is the exponent of the     *)
(* number minus the padding zeros plus three for each such group.          *)
(***************************************************************************)
C5_PaddedLengthLessZeroGroups ==
  (pc = "decoded" /\ IsFiniteNonZero(x.arg))
    => LET pad == Padded(x.arg.digits) - x.arg.digits
           tz  == TrailingZeroGroups(PaddedDigits(x.arg))
       IN  /\ out.digits = Padded(x.arg.digits) - 3 * tz
           /\ out.exponent = x.arg.exponent - pad + 3 * tz

\* 1000 at some exponent: padded to 100000, decoded as 100 with exponent + 1
C5_Witness ==
  /\ pc = "decoded"
  /\ x.arg.digits = 4 /\ x.arg.lsu[0] = 0 /\ x.arg.lsu[1] = 1
  /\ ret = "ok"
  /\ out.digits = 3 /\ out.lsu[0] = 100
  /\ out.exponent = x.arg.exponent + 1

(***************************************************************************)
(* C6: +0, -0, +Infinity, -Infinity and every NaN are encoded in the one   *)
(* byte 0x80, 0x40, 0xC0, 0x00 and 0xE0; decoding that byte succeeds and   *)
(* yields the same class and sign, the NaN being an unsigned quiet NaN.    *)
(***************************************************************************)
SpecialByteOf(dn) ==
  IF IsNaN(dn) THEN 224
  ELSE IF IsInf(dn) THEN (IF IsNeg(dn) THEN 0 ELSE 192)
  ELSE (IF IsNeg(dn) THEN 64 ELSE 128)

C6_SpecialFixedPoints ==
  (pc \in {"encoded", "decoded"} /\ ~IsFiniteNonZero(x.arg))
    => /\ Encoding(x) = <<SpecialByteOf(x.arg)>>
       /\ pc = "decoded"
            => /\ ret = "ok"
               /\ IsNaN(x.arg) => out.bits = DECNAN
               /\ IsInf(x.arg) => IsInf(out) /\ (IsNeg(out) <=> IsNeg(x.arg))
               /\ IsZero(x.arg) => IsZero(out) /\ (IsNeg(out) <=> IsNeg(x.arg))

\* a negative signaling NaN with a payload comes back as the quiet NaN
C6_Witness ==
  /\ pc = "decoded"
  /\ x.arg.bits = DECNEG + DECSNAN /\ x.arg.lsu[0] = 7
  /\ Encoding(x) = <<224>>
  /\ ret = "ok" /\ out.bits = DECNAN

(***************************************************************************)
(* C7: the returned length is 1 for a zero, an infinity or a NaN and at    *)
(* least 2 for a finite non-zero number.                                   *)
(***************************************************************************)
C7_LengthClasses ==
  pc # "start" => IF IsFiniteNonZero(x.arg) THEN x.len >= 2 ELSE x.len = 1

C7_Witness ==
  /\ pc = "encoded"
  /\ IsFiniteNonZero(x.arg)
  /\ x.len = 2

(***************************************************************************)
(* C8 as stated: one declet is emitted for each 3-digit group of the       *)
(* padded coefficient, the all-zero least significant groups included.     *)
(***************************************************************************)
C8_AllGroupsEmitted ==
  (pc # "start" /\ IsFiniteNonZero(x.arg))
    => DecletsEmitted(x) = Padded(x.arg.digits) \div 3

(***************************************************************************)
(* C8 amended: one declet is emitted for each 3-digit group of the padded  *)
(* coefficient from the most significant group down to the last group that *)
(* is not zero; the all-zero least significant groups are not emitted.     *)
(***************************************************************************)
C8_GroupsDownToLastNonZero ==
  (pc # "start" /\ IsFiniteNonZero(x.arg))
    => /\ DecletsEmitted(x) =
            (Padded(x.arg.digits) \div 3) - TrailingZeroGroups(PaddedDigits(x.arg))
       /\ DecletsEmitted(x) >= 1

\* coefficient 1000, padded to 100000, yields the single declet 100
C8_Witness ==
  /\ pc = "encoded"
  /\ ~IsNeg(x.arg) /\ x.arg.digits = 4 /\ x.arg.lsu[0] = 0 /\ x.arg.lsu[1] = 1
  /\ SciExp(x.arg) = 0
  /\ DecletsEmitted(x) = 1
  /\ Encoding(x) = <<144, 100>>

C10_BitLayout ==
  (pc # "start" /\ IsFiniteNonZero(x.arg))
    => /\ TrailingZeroGroups(PaddedDigits(x.arg)) = 0 => OutputBits(x) = LayoutBits(x.arg)
       /\ x.arg = MkFinite(FALSE, Units1(19), 0) => Encoding(x) = <<144, 190>>
       /\ x.arg = MkFinite(TRUE, Units1(100), 0) => Encoding(x) = <<15, 132>>
       /\ x.arg = MkFinite(TRUE, Units2(998, 1), 2)
            => OutputBits(x) = <<0, 0, 0, 0, 0, 1, 1, 1>> \o ToBits(800, 10)
                                 \o ToBits(200, 10) \o Zeros(4)

\* a negative number with a negative exponent of 24 bits and three declets
C10_Witness ==
  /\ pc = "encoded"
  /\ IsNeg(x.arg) /\ SciExp(x.arg) = -16777214
  /\ x.arg.digits = 7 /\ x.arg.lsu[0] = 999
  /\ OutputBits(x) = LayoutBits(x.arg)
  /\ DecletsEmitted(x) = 3

(***************************************************************************)
(* Decoding byte strings that no encoder need have produced.               *)
(***************************************************************************)
\* largest number of bytes after the first of the byte strings tried whole
MaxTail == 2

\* largest number of 10-bit groups after the exponent field
MaxDeclets == 3

\* a byte string as the decoder receives it: len bytes, numbered from 0
Blob(bs) == [len |-> Len(bs), buf |-> [i \in 0..(Len(bs) - 1) |-> bs[i + 1]]]

\* sequences of 0..k elements of S
SeqsUpTo(S, k) == UNION { [1..n -> S] : n \in 0..k }

ByteAt(bits, i) ==
  128 * bits[8 * i + 1] + 64 * bits[8 * i + 2] + 32 * bits[8 * i + 3]
    + 16 * bits[8 * i + 4] + 8 * bits[8 * i + 5] + 4 * bits[8 * i + 6]
    + 2 * bits[8 * i + 7] + bits[8 * i + 8]

\* the bits, completed to whole bytes with the bit fill, as a byte sequence
BytesOfBits(bits, fill) ==
  LET n   == (Len(bits) + 7) \div 8
      all == bits \o [i \in 1..(8 * n - Len(bits)) |-> fill]
  IN  [i \in 1..n |-> ByteAt(all, i - 1)]

TailBytes == {0, 132, 190, 255}

\* every first byte, followed by at most MaxTail bytes
RawInputs ==
  { Blob(<<b>> \o t) : b \in 0..255, t \in SeqsUpTo(TailBytes, MaxTail) }

\* sign, pad bit and exponent field of +E0, +E1, -E0, +E-1 and +E2
Headers ==
  { <<1, 0, 0, 1, 0, 0>>, <<1, 0, 0, 1, 0, 1>>, <<0, 0, 0, 0, 1, 1>>,
    <<1, 0, 0, 0, 1, 0>>, <<1, 0, 0, 1, 1, 0, 0, 0>> }

DecletSet == {0, 1, 900, 999, 1000, 1023}

\* a header, 1..MaxDeclets groups of ten bits, fill bits up to the byte
\* boundary and at most one more byte
DecletInputs ==
  { Blob(BytesOfBits(h \o DecletBits(ds), f) \o e) :
      h \in Headers,
      ds \in UNION { [1..n -> DecletSet] : n \in 1..MaxDeclets },
      f \in {0, 1},
      e \in {<<>>, <<0>>} }

\* numbers of whole bytes of a unary run after the first byte
RunBytes == {0, 1, 2, 3, 4, 31, 32, 33, 64}

\* a first byte whose five low bits start a run of the bit t, k whole bytes
\* of the run, a byte last that ends it (or no such byte) and a payload
RunInput(neg, t, k, last, payload) ==
  Blob(<<(IF neg THEN 0 ELSE 128) + (IF t = 1 THEN 31 ELSE 0)>>
         \o [i \in 1..k |-> IF t = 1 THEN 255 ELSE 0]
         \o last \o payload)

RunInputs ==
  { RunInput(neg, t, k, IF t = 1 THEN l ELSE [i \in 1..Len(l) |-> 255 - l[i]], p) :
      neg \in BOOLEAN, t \in {0, 1}, k \in RunBytes,
      l \in {<<>>, <<127>>, <<191>>, <<254>>},
      p \in {<<>>, <<0>>, <<0, 0>>, <<255, 0>>, <<0, 0, 0, 0, 1>>, <<255, 255, 255, 255, 1>>} }

DecoderInputs == RawInputs \cup DecletInputs \cup RunInputs

InitDecode ==
  /\ pc = "input"
  /\ x \in DecoderInputs
  /\ y = NoCall
  /\ out = StaleNumber
  /\ ret = "none"

\* decInfiniteToNumber on bytes of any origin
DecodeBytes ==
  /\ pc = "input"
  /\ \E oob \in OobUnits :
       LET r == decInfiniteToNumber(x.len, x.buf, out, oob)
       IN  /\ out' = r.decnum
           /\ ret' = IF r.ok THEN "ok" ELSE "fail"
  /\ pc' = "decoded"
  /\ UNCHANGED <<x, y>>

\* decInfiniteFromNumber on the number that was decoded
EncodeDecoded ==
  /\ pc = "decoded"
  /\ ret = "ok"
  /\ y' = Called(NewCall(out, 0))
  /\ pc' = "reencoded"
  /\ UNCHANGED <<x, out, ret>>

NextDecode == DecodeBytes \/ EncodeDecoded

SpecDecode == InitDecode /\ [][NextDecode]_vars

(***************************************************************************)
(* C11: decoding fails for every single byte other than 0x00, 0x40, 0x80,  *)
(* 0xC0 and 0xE0, and for every longer input whose first byte has leading  *)
(* bits other than 00 or 10, has the pad bit set, or has the six leading   *)
(* bits 000100 or 100011.                                                  *)
(***************************************************************************)
BadHeader(c) ==
  IF c.len = 1
    THEN c.buf[0] \notin {0, 64, 128, 192, 224}
    ELSE \/ c.buf[0] \div 64 \notin {0, 2}
         \/ (c.buf[0] \div 32) % 2 = 1
         \/ c.buf[0] \div 4 \in {4, 35}

C11_HeaderValidated ==
  (pc = "decoded" /\ BadHeader(x)) => ret = "fail"

\* 0x8C 0xBE: the header of an exponent of minus zero before a good declet
C11_Witness ==
  /\ pc = "decoded"
  /\ x.len = 2 /\ x.buf[0] = 140 /\ x.buf[1] = 190
  /\ BadHeader(x)
  /\ ret = "fail"

(***************************************************************************)
(* Decoding an encoding whose last byte is missing.  y is the call x with  *)
(* the length the decoder is given.                                        *)
(***************************************************************************)
\* the caller passes one byte less than decInfiniteFromNumber returned
Truncate ==
  /\ pc = "encoded"
  /\ x.len >= 2
  /\ y' = [x EXCEPT !.len = x.len - 1]
  /\ pc' = "truncated"
  /\ UNCHANGED <<x, out, ret>>

DecodeTruncated ==
  /\ pc = "truncated"
  /\ \E oob \in OobUnits :
       LET r == decInfiniteToNumber(y.len, y.buf, out, oob)
       IN  /\ out' = r.decnum
           /\ ret' = IF r.ok THEN "ok" ELSE "fail"
  /\ pc' = "cutdecoded"
  /\ UNCHANGED <<x, y>>

NextTruncate == Encode \/ Truncate \/ DecodeTruncated

SpecTruncate == Init /\ [][NextTruncate]_vars

\* the value of the w bits of bits that start at index from
RECURSIVE BitsValue(_, _, _)
BitsValue(bits, from, w) ==
  IF w = 0 THEN 0 ELSE 2 * BitsValue(bits, from, w - 1) + bits[from + w - 1]

\* the number of bits before the first declet of the encoding of c.arg
HeaderBits(c) == 2 + 2 * BitLen(AbsAdj(c.arg) + 2)

\* the j-th declet of the output of the call c, counted from 1
EmittedDeclet(c, j) == BitsValue(OutputBits(c), HeaderBits(c) + 10 * (j - 1) + 1, 10)

InputBits(c) == BytesBits([i \in 1..c.len |-> c.buf[i - 1]])

\* the number of consecutive bits equal to b from index i on
RECURSIVE RunFrom(_, _, _)
RunFrom(bits, i, b) ==
  IF i <= Len(bits) /\ bits[i] = b THEN 1 + RunFrom(bits, i + 1, b) ELSE 0

\* the length of the unary run, the bit T included
RunLength(c) == RunFrom(InputBits(c), 4, InputBits(c)[4])

\* the run ends within the input
RunTerminated(c) == 3 + RunLength(c) < 8 * c.len

\* the bits of the exponent that follow the end of the run are in the input
PayloadPresent(c) == 4 + 2 * RunLength(c) <= 8 * c.len

\* the magnitude of the exponent, for a run of at most DECINF_EXPSIZE bits
ExponentMagnitude(c) ==
  LET n == RunLength(c)
      v == BitsValue(InputBits(c), 5 + n, n)
  IN  (2 ^ n) + (IF InputBits(c)[4] = 1 THEN v ELSE (2 ^ n) - 1 - v) - 2

ValidExponentField(c) ==
  /\ RunLength(c) <= DECINF_EXPSIZE
  /\ RunTerminated(c)
  /\ PayloadPresent(c)
  /\ ExponentMagnitude(c) <= 999999999

\* the number of whole groups of ten bits after the exponent field
GroupCount(c) == (8 * c.len - (4 + 2 * RunLength(c))) \div 10

\* the j-th group of ten bits, counted from 1
Group(c, j) == BitsValue(InputBits(c), 4 + 2 * RunLength(c) + 10 * (j - 1) + 1, 10)

(***************************************************************************)
(* C13: for every input of two bytes or more with a valid header and       *)
(* exponent field, decoding fails if any of the groups of ten bits read as *)
(* the significand, first, middle or last, is in 1000..1023.               *)
(***************************************************************************)
C13_InvalidDecletRejected ==
  (/\ pc = "decoded" /\ x.len >= 2
   /\ ~BadHeader(x) /\ ValidExponentField(x)
   /\ \E j \in 1..GroupCount(x) : Group(x, j) >= 1000)
    => ret = "fail"

\* three groups of which only the middle one, 1023, is out of range
C13_Witness ==
  /\ pc = "decoded" /\ x.len = 5
  /\ ~BadHeader(x) /\ ValidExponentField(x)
  /\ GroupCount(x) = 3
  /\ Group(x, 1) = 999 /\ Group(x, 2) = 1023 /\ Group(x, 3) = 1
  /\ ret = "fail"

(***************************************************************************)
(* C14: for every input of two bytes or more whose unary run, counted from *)
(* the bit T, is longer than DECINF_EXPSIZE = 30 bits, decoding fails,     *)
(* whatever the length of the run, runs over many whole 0xFF or 0x00 bytes *)
(* included.                                                               *)
(***************************************************************************)
C14_LongRunRejected ==
  (/\ pc = "decoded" /\ x.len >= 2
   /\ ~BadHeader(x)
   /\ RunLength(x) > DECINF_EXPSIZE)
    => ret = "fail"

(***************************************************************************)
(* C15: decoding fails when the input ends before the bit that ends the    *)
(* unary run, when fewer bits than the run is long follow that bit, and    *)
(* when the magnitude of the decoded exponent exceeds 999,999,999.         *)
(***************************************************************************)
ExponentTooLarge(c) ==
  /\ RunLength(c) <= DECINF_EXPSIZE
  /\ RunTerminated(c) /\ PayloadPresent(c)
  /\ ExponentMagnitude(c) > 999999999

C15_BadExponentRejected ==
  (/\ pc = "decoded" /\ x.len >= 2
   /\ \/ ~RunTerminated(x)
      \/ ~PayloadPresent(x)
      \/ ExponentTooLarge(x))
    => ret = "fail"

(***************************************************************************)
(* C16: whenever decoding fails the output decNumber is exactly as it was  *)
(* before the call: no field is written before the input is validated.     *)
(***************************************************************************)
C16_NoPartialResult ==
  (pc = "decoded" /\ ret = "fail") => out = StaleNumber

(***************************************************************************)
(* C17: for every byte string that the decoder accepts, encoding the       *)
(* decoded number gives back that byte string, same length and same bytes. *)
(***************************************************************************)
C17_AcceptedIsCanonical ==
  pc = "reencoded"
    => /\ y.len = x.len
       /\ \A i \in 0..(x.len - 1) : y.buf[i] = x.buf[i]

(***************************************************************************)
(* Encoding numbers of up to DECNUMDIGITS digits into a buffer of          *)
(* DECINF_MAXSIZE bytes.  The byte at index DECINF_MAXSIZE is the byte     *)
(* that follows the buffer in memory; fill is what the memory held.        *)
(***************************************************************************)
GuardedBuffer(fill) == [i \in 0..DECINF_MAXSIZE |-> fill]

\* coefficients of n equal units
WideCoeffs == { [i \in 0..(n - 1) |-> u] : n \in 1..DECNUMUNITS, u \in {1, 100, 999} }

WideNumbers ==
  { MkFinite(neg, us, adj) : neg \in BOOLEAN, us \in WideCoeffs, adj \in AdjExps }

InitSize ==
  /\ pc = "start"
  /\ x \in { [arg |-> dn, decnum |-> dn, buf |-> GuardedBuffer(f), len |-> 0, fill |-> f] :
               dn \in WideNumbers, f \in Fills }
  /\ y = NoCall
  /\ out = StaleNumber
  /\ ret = "none"

NextSize == Encode

SpecSize == InitSize /\ [][NextSize]_vars

(***************************************************************************)
(* C18: for every finite non-zero number of at most DECNUMDIGITS = 39      *)
(* digits whose adjusted exponent is within +/-999,999,999 the returned    *)
(* length is at most DECINF_MAXSIZE = 24, and no byte of index 24 or more  *)
(* is written.                                                             *)
(***************************************************************************)
C18_SizeBound ==
  /\ DECINF_MAXSIZE = 24
  /\ (pc = "encoded" /\ IsFiniteNonZero(x.arg))
       => /\ x.len <= DECINF_MAXSIZE
          /\ x.buf[DECINF_MAXSIZE] = x.fill

\* 39 digits and the largest exponent fill the 24 bytes
C18_Witness ==
  /\ pc = "encoded"
  /\ x.arg.digits = 39 /\ SciExp(x.arg) = 999999999
  /\ x.len = 24
  /\ x.buf[DECINF_MAXSIZE] = x.fill /\ x.fill = 255

(***************************************************************************)
(* Two calls in flight at once.  x and y are the calls of two threads,     *)
(* each on its own number and its own buffer; pc[1] and pc[2] are the      *)
(* places the two calls have reached.  A call is a record: kind is         *)
(* "encode" or "decode", buf the output buffer (encode) or the input       *)
(* bytes (decode), decnum the caller's number, p the bitPos of the call,   *)
(* len and ret what the call has returned, oob the unit that lies before   *)
(* lsu in memory, and mixed whether the call has taken a step while the    *)
(* other call was in flight.                                               *)
(***************************************************************************)
EncodeCall(dn, fill) ==
  [kind |-> "encode", arg |-> dn, decnum |-> dn, buf |-> FreshBuffer(fill), fill |-> fill,
   len |-> 0, p |-> [pos |-> 0, free |-> 0], ret |-> "none", oob |-> 0, mixed |-> FALSE]

DecodeCall(c, oob) ==
  [kind |-> "decode", arg |-> StaleNumber, decnum |-> StaleNumber, buf |-> c.buf, fill |-> 0,
   len |-> c.len, p |-> [pos |-> 0, free |-> 0], ret |-> "none", oob |-> oob, mixed |-> FALSE]

ThreadNumbers ==
  { MkFinite(neg, us, adj) :
      neg \in BOOLEAN, us \in {Units1(19), Units2(998, 1)}, adj \in {2, -7, 126} }
    \cup { MkSpecial(0, 0, 0), MkSpecial(DECNEG + DECINF, 0, 0) }

ThreadInputs ==
  { Blob(bs) : bs \in { <<144, 190>>, <<15, 132>>, <<128>>, <<1>>, <<140, 190>>,
                        <<144, 190, 0>>, <<159, 255, 255>>, <<144, 64, 127, 255>>,
                        <<7, 200, 12, 128>>, <<144>> \o <<255, 255>> } }

ThreadCalls ==
  { EncodeCall(dn, f) : dn \in ThreadNumbers, f \in {255} }
    \cup { DecodeCall(c, oob) : c \in ThreadInputs, oob \in {900} }

InitThreads ==
  /\ pc = <<"start", "start">>
  /\ x \in ThreadCalls
  /\ y \in ThreadCalls
  /\ out = StaleNumber
  /\ ret = "none"

\* OwnCursor that is one static cursor: the call in flight last set it
OwnCursor_Static(c, d, dpc) == IF dpc \in {"start", "done"} THEN c.p ELSE d.p

\* bitPos p is an automatic variable of the call c
OwnCursor(c, d, dpc) == c.p

Cursor(s) == [pos |-> s.pos, free |-> s.free]

\* decInfiniteFromNumber up to the initialisation of p
EncodeStart(c) ==
  IF decNumberIsSpecial(c.decnum) \/ finiteDecNumberIsZero(c.decnum)
    THEN [c  |-> [c EXCEPT !.buf[0] = SpecialByte(c.decnum), !.len = 1],
          pc |-> "done"]
    ELSE [c  |-> [c EXCEPT !.buf[0] = IF decNumberIsNegative(c.decnum) THEN 0 ELSE 128,
                           !.p = [pos |-> 0, free |-> 5]],
          pc |-> "exponent"]

\* p = decInfinitePackExponent(T ? ... : ..., T, p), s being its result
EncodeExponentDone(c, s) ==
  [c |-> [c EXCEPT !.buf = s.buf, !.p = Cursor(s)], pc |-> "shift"]

EncodeExponentOf(c, q, adj_exp, T) ==
  EncodeExponentDone(c, decInfinitePackExponent(IF adj_exp < 0 THEN -adj_exp ELSE adj_exp, T,
                                                [buf |-> c.buf, pos |-> q.pos, free |-> q.free]))

EncodeExponent(c, q) ==
  EncodeExponentOf(c, q, c.decnum.exponent + c.decnum.digits - 1,
                   IF decNumberIsNegative(c.decnum)
                     THEN c.decnum.exponent + c.decnum.digits - 1 < 0
                     ELSE c.decnum.exponent + c.decnum.digits - 1 >= 0)

EncodeShift(c) ==
  [c  |-> [c EXCEPT !.decnum = decShiftToMost(c.decnum)],
   pc |-> IF decNumberIsNegative(c.decnum) THEN "complement" ELSE "mantissa"]

EncodeComplement(c) ==
  [c |-> [c EXCEPT !.decnum = decInfiniteComplementMantissa(c.decnum)], pc |-> "mantissa"]

\* p = decInfinitePackMantissa(decnum, p); return p.pos - &result[0] + 1
EncodeMantissaDone(c, s) ==
  [c |-> [c EXCEPT !.buf = s.buf, !.p = Cursor(s), !.len = s.pos + 1], pc |-> "done"]

EncodeMantissa(c, q) ==
  EncodeMantissaDone(c, decInfinitePackMantissa(c.decnum,
                          [buf |-> c.buf, pos |-> q.pos, free |-> q.free]))

\* the return of decInfiniteToNumber, r being [ok, decnum]
DecodeReturn(c, r) ==
  [c  |-> [c EXCEPT !.decnum = r.decnum, !.ret = IF r.ok THEN "ok" ELSE "fail"],
   pc |-> "done"]

\* decInfiniteToNumber up to the initialisation of p
DecodeStart(c) ==
  IF c.len = 1
    THEN DecodeReturn(c, ToNumberSpecial(decNumberZero(c.decnum), SpecialBits(c.buf[0])))
  ELSE IF BitAnd(c.buf[0], 224) \notin {0, 128}
    THEN DecodeReturn(c, [ok |-> FALSE, decnum |-> c.decnum])
  ELSE IF BitAnd(c.buf[0], 252) \in {140, 16}
    THEN DecodeReturn(c, [ok |-> FALSE,
                          decnum |-> [c.decnum EXCEPT !.bits =
                                        IF BitAnd(c.buf[0], 224) = 0 THEN DECNEG ELSE 0]])
  ELSE [c  |-> [c EXCEPT !.decnum.bits = IF BitAnd(c.buf[0], 224) = 0 THEN DECNEG ELSE 0,
                         !.p = [pos |-> 0, free |-> 5]],
        pc |-> "exponent"]

\* p = decInfiniteUnpackExponent(decnum, p, end); if (!p.pos) return 0;
DecodeExponentDone(c, r) ==
  IF ~r.ok THEN DecodeReturn(c, [ok |-> FALSE, decnum |-> r.decnum])
  ELSE [c |-> [c EXCEPT !.decnum = r.decnum, !.p = Cursor(r)], pc |-> "mantissa"]

DecodeExponent(c, q) ==
  DecodeExponentDone(c, decInfiniteUnpackExponent(c.decnum, c.buf, q, c.len))

\* decInfiniteUnpackMantissa and the unadjusted exponent
DecodeMantissa(c, q) ==
  DecodeReturn(c, ToNumberResult(decInfiniteUnpackMantissa(c.decnum, c.buf, q, c.len, c.oob)))

\* the next step of the call c, which is at l and uses the cursor q
StepCall(c, l, q) ==
  IF c.kind = "encode"
    THEN IF l = "start" THEN EncodeStart(c)
         ELSE IF l = "exponent" THEN EncodeExponent(c, q)
         ELSE IF l = "shift" THEN EncodeShift(c)
         ELSE IF l = "complement" THEN EncodeComplement(c)
         ELSE EncodeMantissa(c, q)
    ELSE IF l = "start" THEN DecodeStart(c)
         ELSE IF l = "exponent" THEN DecodeExponent(c, q)
         ELSE DecodeMantissa(c, q)

\* r is the step taken; the call notes whether the other call was in flight
Stepped(r, dpc) ==
  [r.c EXCEPT !.mixed = @ \/ dpc \notin {"start", "done"}]

StepFirst ==
  /\ pc[1] # "done"
  /\ \E r \in {StepCall(x, pc[1], OwnCursor(x, y, pc[2]))} :
       /\ x' = Stepped(r, pc[2])
       /\ pc' = [pc EXCEPT ![1] = r.pc]
  /\ UNCHANGED <<y, out, ret>>

StepSecond ==
  /\ pc[2] # "done"
  /\ \E r \in {StepCall(y, pc[2], OwnCursor(y, x, pc[1]))} :
       /\ y' = Stepped(r, pc[1])
       /\ pc' = [pc EXCEPT ![2] = r.pc]
  /\ UNCHANGED <<x, out, ret>>

NextThreads == StepFirst \/ StepSecond

SpecThreads == InitThreads /\ [][NextThreads]_vars

\* what the call c returns and leaves behind when it runs alone
Alone(c) ==
  IF c.kind = "encode"
    THEN decInfiniteFromNumber(FreshBuffer(c.fill), c.arg)
    ELSE decInfiniteToNumber(c.len, c.buf, c.arg, c.oob)

SameAsAlone(c) ==
  IF c.kind = "encode"
    THEN /\ c.len = Alone(c).len
         /\ c.buf = Alone(c).buf
         /\ c.decnum = Alone(c).decnum
    ELSE /\ c.ret = (IF Alone(c).ok THEN "ok" ELSE "fail")
         /\ c.decnum = Alone(c).decnum

(***************************************************************************)
(* C19: two encode or decode calls on disjoint numbers and buffers, their  *)
(* steps interleaved in any order, each return the same result and leave   *)
(* the same buffer and number as when run alone.                           *)
(***************************************************************************)
C19_CallsIndependent ==
  /\ pc[1] = "done" => SameAsAlone(x)
  /\ pc[2] = "done" => SameAsAlone(y)

\* an encode call of -199.8 and a decode call of 90 BE that ran interleaved
C19_Witness ==
  /\ pc = <<"done", "done">>
  /\ x.kind = "encode" /\ x.arg = MkFinite(TRUE, Units2(998, 1), 2)
  /\ y.kind = "decode" /\ y.len = 2 /\ y.buf[0] = 144 /\ y.buf[1] = 190
  /\ x.mixed /\ y.mixed
  /\ x.len = 4 /\ y.ret = "ok"
  /\ SameAsAlone(x) /\ SameAsAlone(y)

(***************************************************************************)
(* The SQL functions that take a blob.  x is the blob, out the decNumber   *)
(* the function declares on its stack, y the decContext of the connection  *)
(* (status and traps, as sets of flag names) and ret what decode() left:   *)
(* ok is its return value, error the message given to                      *)
(* sqlite3_result_error ("none" without one) and rejected whether          *)
(* decInfiniteToNumber returned 0.                                         *)
(***************************************************************************)
BlobInputs ==
  { Blob(<<b>> \o t) : b \in 0..255, t \in {<<>>, <<190>>, <<19, 20>>} }
    \cup {Blob(<<>>)}

\* what the byte in front of an empty blob may hold
OutsideBytes == {0, 128, 224}

\* a decNumber on the stack is not initialised: it holds what was there
StackNumbers == {StaleNumber, MkSpecial(DECNAN, 0, 0)}

Contexts ==
  { [status |-> st, traps |-> tr] :
      st \in {{}, {"Inexact result"}},
      tr \in SUBSET {"Conversion syntax", "Invalid operation"} }

InitBlob ==
  /\ pc = "value"
  /\ x \in BlobInputs
  /\ y \in Contexts
  /\ out \in StackNumbers
  /\ ret = [ok |-> FALSE, error |-> "none", rejected |-> FALSE,
            read |-> FALSE]

\* decContextSetStatusQuiet(decCtx, DEC_Conversion_syntax) unless decoded
decNumberFromSQLite3Blob(result, value, decCtx, oob) ==
  LET r == decInfiniteToNumber(value.len, value.buf, result, oob)
  IN  [result   |-> r.decnum,
       decCtx   |-> IF r.ok THEN decCtx
                    ELSE [decCtx EXCEPT !.status = @ \cup {"Conversion syntax"}],
       rejected |-> ~r.ok]

decContextStatusToString(flags) ==
  IF Cardinality(flags) = 1 THEN CHOOSE f \in flags : TRUE ELSE "Multiple status"

\* an error and the flags of mask cleared if any flag of mask is set
checkStatus(decCtx, mask) ==
  IF decCtx.status \cap mask # {}
    THEN [ok     |-> FALSE,
          error  |-> decContextStatusToString(decCtx.status \cap mask),
          decCtx |-> [decCtx EXCEPT !.status = @ \ mask]]
    ELSE [ok |-> TRUE, error |-> "none", decCtx |-> decCtx]

\* decode() on a value of type SQLITE_BLOB
DecodeBlobValue ==
  /\ pc = "value"
  /\ x.len > 0
  /\ \E oob \in OobUnits :
       \E b \in {decNumberFromSQLite3Blob(out, x, y, oob)} :
         \E c \in {checkStatus(b.decCtx, b.decCtx.traps)} :
           /\ out' = b.result
           /\ y' = c.decCtx
           /\ ret' = [ok |-> c.ok, error |-> c.error, rejected |-> b.rejected,
                      read |-> FALSE]
  /\ pc' = "decimal"
  /\ UNCHANGED x

\* decInfiniteToNumber with len = 0 once assert(len > 0) is compiled out:
\* bytes[0] is read and, unless its sign bits end the call, so are the
\* bytes after it, which decide the outcome
ToNumberOutside(decnum, byte, rejected) ==
  IF BitAnd(byte, 224) \notin {0, 128}
    THEN [ok |-> FALSE, decnum |-> decnum]
    ELSE [ok     |-> ~rejected,
          decnum |-> [decnum EXCEPT !.bits =
                        IF BitAnd(byte, 224) = 0 THEN DECNEG ELSE 0]]

\* decode() on an empty blob: assert(len > 0) stops the process, or, in a
\* build without assertions, the call reads outside the blob
DecodeEmptyBlob ==
  /\ pc = "value"
  /\ x.len = 0
  /\ \/ /\ pc' = "aborted"
        /\ UNCHANGED <<y, out, ret>>
     \/ /\ \E byte \in OutsideBytes, rejected \in BOOLEAN :
             \E r \in {ToNumberOutside(out, byte, rejected)} :
               \E c \in {checkStatus(
                            IF r.ok THEN y
                            ELSE [y EXCEPT !.status = @ \cup {"Conversion syntax"}],
                            y.traps)} :
                 /\ out' = r.decnum
                 /\ y' = c.decCtx
                 /\ ret' = [ok |-> c.ok, error |-> c.error,
                            rejected |-> ~r.ok, read |-> TRUE]
        /\ pc' = "decimal"
  /\ UNCHANGED x

NextBlob == DecodeBlobValue \/ DecodeEmptyBlob

SpecBlob == InitBlob /\ [][NextBlob]_vars

(***************************************************************************)
(* C20: when the blob is not a valid encoding the Conversion syntax flag   *)
(* is set; if Conversion syntax is trapped the operation fails with that   *)
(* error, and if it is not the decimal the operation works on is a quiet   *)
(* NaN.                                                                    *)
(***************************************************************************)
C20_MalformedBlob ==
  (pc = "decimal" /\ ret.rejected)
    => IF "Conversion syntax" \in y.traps
         THEN ~ret.ok /\ ret.error = "Conversion syntax"
         ELSE /\ ret.ok
              /\ "Conversion syntax" \in y.status
              /\ BitAnd(out.bits, DECNAN) # 0

(***************************************************************************)
(* The shared context behind the decStatus and decTraps tables: the status *)
(* and the traps of the decContext are sets of flags, named as the         *)
(* extended_flags table names them.                                        *)
(***************************************************************************)
FLAGS_MAX == 13

extended_flags ==
  << "Clamped", "Conversion syntax", "Division by zero",
     "Division impossible", "Division undefined", "Inexact result",
     "Out of memory", "Invalid context", "Invalid operation", "Overflow",
     "Rounded result", "Subnormal", "Underflow" >>

\* strncmp(flag, name, strlen(name)) == 0: name is a prefix of flag
StartsWith(flag, name) ==
  \/ flag = name
  \/ <<flag, name>> \in {<<"Inexact results", "Inexact result">>,
                         <<"ROUND_UPWARDS", "ROUND_UP">>}

\* the first flag of the table whose name starts the string, or FLAGS_MAX
flag_string_to_int(flag) ==
  IF \E i \in 1..FLAGS_MAX : StartsWith(flag, extended_flags[i])
    THEN extended_flags[CHOOSE i \in 1..FLAGS_MAX :
                          /\ StartsWith(flag, extended_flags[i])
                          /\ \A j \in 1..(i - 1) :
                               ~StartsWith(flag, extended_flags[j])]
    ELSE "FLAGS_MAX"

decimalClearFlag(decCtx, flag) ==
  IF flag_string_to_int(flag) = "FLAGS_MAX"
    THEN [ok |-> FALSE, error |-> "Invalid flag", decCtx |-> decCtx]
    ELSE [ok |-> TRUE, error |-> "none",
          decCtx |-> [decCtx EXCEPT !.status = @ \ {flag_string_to_int(flag)}]]

decimalSetFlag(decCtx, flag) ==
  IF flag_string_to_int(flag) = "FLAGS_MAX"
    THEN [ok |-> FALSE, error |-> "Invalid flag", decCtx |-> decCtx]
    ELSE [ok |-> TRUE, error |-> "none",
          decCtx |-> [decCtx EXCEPT !.status = @ \cup {flag_string_to_int(flag)}]]

decimalClearTrap(decCtx, flag) ==
  IF flag_string_to_int(flag) = "FLAGS_MAX"
    THEN [ok |-> FALSE, error |-> "Invalid flag", decCtx |-> decCtx]
    ELSE [ok |-> TRUE, error |-> "none",
          decCtx |-> [decCtx EXCEPT !.traps = @ \ {flag_string_to_int(flag)}]]

decimalSetTrap(decCtx, flag) ==
  IF flag_string_to_int(flag) = "FLAGS_MAX"
    THEN [ok |-> FALSE, error |-> "Invalid flag", decCtx |-> decCtx]
    ELSE [ok |-> TRUE, error |-> "none",
          decCtx |-> [decCtx EXCEPT !.traps = @ \cup {flag_string_to_int(flag)}]]

\* xUpdate of decStatus: old is argv[0], new is argv[2], "NULL" for SQL NULL
\* and "absent" where argc leaves the argument out
decimalStatusUpdate(decCtx, old, new) ==
  IF new = "absent" THEN decimalClearFlag(decCtx, old)
  ELSE IF new = "NULL"
    THEN [ok |-> FALSE, error |-> "Value cannot be NULL", decCtx |-> decCtx]
  ELSE IF old = "NULL" THEN decimalSetFlag(decCtx, new)
  ELSE IF decimalClearFlag(decCtx, old).ok
    THEN decimalSetFlag(decimalClearFlag(decCtx, old).decCtx, new)
  ELSE decimalClearFlag(decCtx, old)

\* the flag is removed from the status before it is added to the traps
TrapFlag(decCtx, c, new) ==
  IF c.ok THEN decimalSetTrap(c.decCtx, new) ELSE c

\* xUpdate of decTraps
decimalTrapsUpdate(decCtx, old, new) ==
  IF new = "absent" THEN decimalClearTrap(decCtx, old)
  ELSE IF new = "NULL"
    THEN [ok |-> FALSE, error |-> "Value cannot be NULL", decCtx |-> decCtx]
  ELSE IF old = "NULL"
    THEN TrapFlag(decCtx, decimalClearFlag(decCtx, new), new)
  ELSE IF decimalClearTrap(decCtx, old).ok
    THEN TrapFlag(decCtx,
                  decimalClearFlag(decimalClearTrap(decCtx, old).decCtx, new),
                  new)
  ELSE decimalClearTrap(decCtx, old)

\* initDefaultContext: no status, the seven traps
DefaultTraps ==
  { "Conversion syntax", "Division by zero", "Division undefined",
    "Division impossible", "Out of memory", "Invalid context",
    "Invalid operation" }

initDefaultContext == [status |-> {}, traps |-> DefaultTraps]

\* what a statement names as a flag
FlagInputs ==
  { "Conversion syntax", "Inexact result", "Inexact results", "Bogus" }

\* the conditions one call of the arithmetic library raises
LibraryConditions ==
  { {}, {"Division impossible"}, {"Inexact result", "Rounded result"},
    {"Invalid operation"}, {"Inexact result"} }

\* decNumberCompare raises Invalid operation on a signalling NaN
CompareConditions == { {}, {"Invalid operation"} }

\* xBegin, xCommit and xRollback of the three tables, on the pair of the
\* shared context and the table's copy of it (no copy is the empty sequence)
decimalContextBegin(p) == [p EXCEPT !.oldCtx = <<p.decCtx>>]

decimalContextCommit(p) == [p EXCEPT !.oldCtx = <<>>]

decimalContextRollback(p) == [decCtx |-> p.oldCtx[1], oldCtx |-> <<>>]

\* a writing statement outside a transaction: xBegin, xUpdate, then xCommit
\* if xUpdate returned SQLITE_OK and xRollback if not
Autocommit(p, r) ==
  IF r.ok THEN decimalContextCommit([p EXCEPT !.decCtx = r.decCtx])
          ELSE decimalContextRollback([p EXCEPT !.decCtx = r.decCtx])

AutocommitStatement(decCtx, r) ==
  [r EXCEPT !.decCtx =
     Autocommit(decimalContextBegin([decCtx |-> decCtx, oldCtx |-> <<>>]),
                r).decCtx]

NoStatement == [kind |-> "none", old |-> "absent", new |-> "absent",
                syntax |-> FALSE, raised |-> {}]

InitStatus ==
  /\ pc = "ready"
  /\ x = NoStatement
  /\ y = initDefaultContext
  /\ out = initDefaultContext
  /\ ret = [ok |-> TRUE, error |-> "none"]

\* decode() of a text or blob argument, syntax telling if it is malformed
decode(decCtx, syntax) ==
  checkStatus(IF syntax
                THEN [decCtx EXCEPT !.status = @ \cup {"Conversion syntax"}]
                ELSE decCtx,
              decCtx.traps)

\* the library call and the check of SQLITE_DECIMAL_OP1 after decode()
OperateAndCheck(d, raised) ==
  IF d.ok
    THEN checkStatus([d.decCtx EXCEPT !.status = @ \cup raised],
                     d.decCtx.traps)
    ELSE d

\* SQLITE_DECIMAL_CMP after decode(): the status is not checked
CompareUnchecked(d, raised) ==
  IF d.ok
    THEN [d EXCEPT !.decCtx = [d.decCtx EXCEPT !.status = @ \cup raised]]
    ELSE d

Conclude(statement, r) ==
  /\ x' = statement
  /\ out' = y
  /\ y' = r.decCtx
  /\ ret' = [ok |-> r.ok, error |-> r.error]
  /\ UNCHANGED pc

\* select decAbs(v), decSqrt(v), ...
DecimalOperation ==
  /\ pc = "ready"
  /\ \E syntax \in BOOLEAN, raised \in LibraryConditions :
       Conclude([NoStatement EXCEPT !.kind = "operation",
                                    !.syntax = syntax, !.raised = raised],
                OperateAndCheck(decode(y, syntax), raised))

\* select decEqual(v1, v2), decLessThan(v1, v2), ...
DecimalComparison ==
  /\ pc = "ready"
  /\ \E syntax \in BOOLEAN, raised \in CompareConditions :
       Conclude([NoStatement EXCEPT !.kind = "comparison",
                                    !.syntax = syntax, !.raised = raised],
                CompareUnchecked(decode(y, syntax), raised))

StatusStatement ==
  /\ pc = "ready"
  /\ \E old \in FlagInputs \cup {"NULL"},
        new \in FlagInputs \cup {"NULL", "absent"} :
       /\ old = "NULL" => new # "absent"
       /\ Conclude([NoStatement EXCEPT !.kind = "decStatus",
                                       !.old = old, !.new = new],
                   AutocommitStatement(y, decimalStatusUpdate(y, old, new)))

TrapsStatement ==
  /\ pc = "ready"
  /\ \E old \in FlagInputs \cup {"NULL"},
        new \in FlagInputs \cup {"NULL", "absent"} :
       /\ old = "NULL" => new # "absent"
       /\ Conclude([NoStatement EXCEPT !.kind = "decTraps",
                                       !.old = old, !.new = new],
                   AutocommitStatement(y, decimalTrapsUpdate(y, old, new)))

NextStatus ==
  \/ DecimalOperation
  \/ DecimalComparison
  \/ StatusStatement
  \/ TrapsStatement

SpecStatus == InitStatus /\ [][NextStatus]_vars

\* the conditions the last statement raised
Raised == x.raised \cup (IF x.syntax THEN {"Conversion syntax"} ELSE {})

(***************************************************************************)
(* C21: when an operation raises a condition whose flag is in the trap set *)
(* it fails with the name of the condition as its error and the flag is    *)
(* not in the status afterwards; when the flag is not trapped the          *)
(* operation succeeds and the flag is in the status, where later           *)
(* operations leave every flag that is not trapped.                        *)
(***************************************************************************)
C21_TrapHandling ==
  x.kind \in {"operation", "comparison"} =>
    /\ \A f \in out.status \ out.traps : f \in y.status
    /\ \A f \in Raised :
         Raised = {f} =>
           IF f \in out.traps
             THEN ~ret.ok /\ ret.error = f /\ f \notin y.status
             ELSE ret.ok /\ f \in y.status

(***************************************************************************)
(* C29: no flag is in the status and in the traps at the same time, and an *)
(* operation that raises no condition does not fail.                       *)
(***************************************************************************)
C29_StatusTrapsDisjoint ==
  /\ y.status \cap y.traps = {}
  /\ (x.kind \in {"operation", "comparison"} /\ Raised = {}) => ret.ok

(***************************************************************************)
(* The decContext table: the one row of precision, emax, emin and rounding *)
(* mode of the shared context.                                             *)
(***************************************************************************)
DEC_ROUND_MAX == 8

rounding_mode ==
  << "ROUND_CEILING", "ROUND_UP", "ROUND_HALF_UP", "ROUND_HALF_EVEN",
     "ROUND_HALF_DOWN", "ROUND_DOWN", "ROUND_FLOOR", "ROUND_05UP" >>

Rejected(decCtx, message) ==
  [ok |-> FALSE, error |-> message, decCtx |-> decCtx]

Accepted(decCtx) == [ok |-> TRUE, error |-> "none", decCtx |-> decCtx]

decimalSetPrecision(decCtx, new_prec) ==
  IF new_prec <= 0 THEN Rejected(decCtx, "Precision must be positive")
  ELSE IF new_prec > DECNUMDIGITS
    THEN Rejected(decCtx, "Maximum allowed precision is 39")
  ELSE IF new_prec % 3 # 0
    THEN Rejected(decCtx, "Precision must be a multiple of three")
  ELSE Accepted([decCtx EXCEPT !.digits = new_prec])

decimalSetMaxExp(decCtx, new_exp) ==
  IF new_exp <= 0 \/ new_exp > 999999999
    THEN Rejected(decCtx, "Exponent value out of range")
    ELSE Accepted([decCtx EXCEPT !.emax = new_exp])

decimalSetMinExp(decCtx, new_exp) ==
  IF new_exp >= 0 \/ new_exp < -999999999
    THEN Rejected(decCtx, "Exponent value out of range")
    ELSE Accepted([decCtx EXCEPT !.emin = new_exp])

roundingModeToEnum(round) ==
  IF round = "DEFAULT" THEN "ROUND_HALF_UP"
  ELSE IF \E i \in 1..DEC_ROUND_MAX : StartsWith(round, rounding_mode[i])
    THEN rounding_mode[CHOOSE i \in 1..DEC_ROUND_MAX :
                         /\ StartsWith(round, rounding_mode[i])
                         /\ \A j \in 1..(i - 1) :
                              ~StartsWith(round, rounding_mode[j])]
  ELSE "DEC_ROUND_MAX"

decimalSetRoundingMode(decCtx, new_mode) ==
  IF roundingModeToEnum(new_mode) = "DEC_ROUND_MAX"
    THEN Rejected(decCtx, "Invalid rounding mode")
    ELSE Accepted([decCtx EXCEPT !.round = roundingModeToEnum(new_mode)])

\* the setters one after the other, each on what the one before left
UpdateRounding(r, round) ==
  IF r.ok THEN decimalSetRoundingMode(r.decCtx, round) ELSE r

UpdateMinExp(r, emin, round) ==
  IF r.ok THEN UpdateRounding(decimalSetMinExp(r.decCtx, emin), round) ELSE r

UpdateMaxExp(r, emax, emin, round) ==
  IF r.ok THEN UpdateMinExp(decimalSetMaxExp(r.decCtx, emax), emin, round)
          ELSE r

\* xUpdate of decContext for an UPDATE statement; argv is the new row and
\* argv.null the columns of it that are SQL NULL
decimalContextUpdate(decCtx, argv) ==
  IF argv.null # {}
    THEN Rejected(decCtx, "Value cannot be NULL")
    ELSE UpdateMaxExp(decimalSetPrecision(decCtx, argv.prec),
                      argv.emax, argv.emin, argv.round)

\* the rows an UPDATE statement can hand to xUpdate
ContextRows ==
  { [prec |-> prec, emax |-> emax, emin |-> emin, round |-> round,
     null |-> null] :
      prec \in {0, 6, 7, 40},
      emax \in {0, 1, 1000000000},
      emin \in {0, -1, -1000000000},
      round \in {"ROUND_UP", "DEFAULT", "ROUND_SIDEWAYS", "ROUND_UPWARDS"},
      null \in {{}, {"prec"}, {"round"}} }

\* decContextDefault(DEC_INIT_BASE) with digits = DECNUMDIGITS
DefaultContext ==
  [digits |-> DECNUMDIGITS, emax |-> 999999999, emin |-> -999999999,
   round |-> "ROUND_HALF_UP"]

\* x is the context before the last statement, out the copy for rollback
InitContext ==
  /\ pc = "autocommit"
  /\ x = DefaultContext
  /\ y = DefaultContext
  /\ out = <<>>
  /\ ret = [ok |-> TRUE, error |-> "none"]

\* update decContext set ... outside a transaction
AutocommitUpdate ==
  /\ pc = "autocommit"
  /\ \E argv \in ContextRows :
       \E r \in {decimalContextUpdate(y, argv)} :
         \E p \in {Autocommit(decimalContextBegin([decCtx |-> y,
                                                   oldCtx |-> out]), r)} :
           /\ y' = p.decCtx
           /\ out' = p.oldCtx
           /\ ret' = [ok |-> r.ok, error |-> r.error]
  /\ x' = y
  /\ UNCHANGED pc

\* begin
BeginTransaction ==
  /\ pc = "autocommit"
  /\ pc' = "transaction"
  /\ ret' = [ok |-> TRUE, error |-> "none"]
  /\ x' = y
  /\ UNCHANGED <<y, out>>

\* update decContext set ... inside a transaction: xBegin before the first
\* xUpdate of the transaction, and neither xCommit nor xRollback after it
TransactionUpdate ==
  /\ pc = "transaction"
  /\ \E argv \in ContextRows :
       \E p \in {IF out = <<>>
                   THEN decimalContextBegin([decCtx |-> y, oldCtx |-> out])
                   ELSE [decCtx |-> y, oldCtx |-> out]} :
         \E r \in {decimalContextUpdate(p.decCtx, argv)} :
           /\ y' = r.decCtx
           /\ out' = p.oldCtx
           /\ ret' = [ok |-> r.ok, error |-> r.error]
  /\ x' = y
  /\ UNCHANGED pc

\* commit
CommitTransaction ==
  /\ pc = "transaction"
  /\ \E p \in {IF out = <<>> THEN [decCtx |-> y, oldCtx |-> out]
               ELSE decimalContextCommit([decCtx |-> y, oldCtx |-> out])} :
       /\ y' = p.decCtx
       /\ out' = p.oldCtx
  /\ pc' = "autocommit"
  /\ ret' = [ok |-> TRUE, error |-> "none"]
  /\ x' = y

\* rollback
RollbackTransaction ==
  /\ pc = "transaction"
  /\ \E p \in {IF out = <<>> THEN [decCtx |-> y, oldCtx |-> out]
               ELSE decimalContextRollback([decCtx |-> y, oldCtx |-> out])} :
       /\ y' = p.decCtx
       /\ out' = p.oldCtx
  /\ pc' = "autocommit"
  /\ ret' = [ok |-> TRUE, error |-> "none"]
  /\ x' = y

NextContext ==
  \/ AutocommitUpdate
  \/ BeginTransaction
  \/ TransactionUpdate
  \/ CommitTransaction
  \/ RollbackTransaction

SpecContext == InitContext /\ [][NextContext]_vars

(***************************************************************************)
(* C30: when an UPDATE of decContext is rejected, the precision, emax,     *)
(* emin and rounding mode of the shared context are as they were before    *)
(* the statement.                                                          *)
(***************************************************************************)
C30_FailedUpdateAtomic == ~ret.ok => y = x

(***************************************************************************)
(* The exponent field on its own: decInfinitePackExponent on the first     *)
(* byte as decInfiniteFromNumber prepares it, the declets of               *)
(* decInfinitePackMantissa one at a time, and decInfiniteUnpackExponent on *)
(* the bytes written.                                                      *)
(***************************************************************************)
\* every exponent of the two tables, the first of the general case, and
\* the exponents around each change of the number of bits
ExponentInputs == 0..130 \cup ExpMagnitudes

MantissaUnits == {1, 999}

FirstByte(neg, fill) ==
  [buf  |-> [FreshBuffer(fill) EXCEPT ![0] = IF neg THEN 0 ELSE 128],
   pos  |-> 0,
   free |-> 5]

CursorOf(s) == [pos |-> s.pos, free |-> s.free]

InitExponent ==
  /\ pc = "input"
  /\ \E exp \in ExponentInputs, T \in BOOLEAN, neg \in BOOLEAN, fill \in Fills :
       /\ x = [exp |-> exp, T |-> T, neg |-> neg, declets |-> 0,
               cursor |-> [pos |-> 0, free |-> 5],
               before |-> [pos |-> 0, free |-> 5]]
       /\ y = FirstByte(neg, fill)
  /\ out = StaleNumber
  /\ ret = [ok |-> FALSE, pos |-> 0, free |-> 5]

\* p = decInfinitePackExponent(exp, T, p)
PackExponent ==
  /\ pc = "input"
  /\ \E s \in {decInfinitePackExponent(x.exp, x.T, y)} :
       /\ y' = s
       /\ x' = [x EXCEPT !.cursor = CursorOf(s), !.before = CursorOf(s)]
  /\ pc' = "exponent"
  /\ UNCHANGED <<out, ret>>

\* one iteration of the loop of decInfinitePackMantissa
PackMantissaDeclet ==
  /\ pc \in {"exponent", "mantissa"}
  /\ x.declets < MaxDeclets
  /\ \E u \in MantissaUnits : y' = PackDeclet(y, u)
  /\ x' = [x EXCEPT !.declets = @ + 1, !.before = CursorOf(y)]
  /\ pc' = "mantissa"
  /\ UNCHANGED <<out, ret>>

\* decInfiniteUnpackExponent as decInfiniteToNumber calls it
UnpackExponent ==
  /\ pc = "mantissa"
  /\ \E r \in {decInfiniteUnpackExponent(
                 [out EXCEPT !.bits = IF x.neg THEN DECNEG ELSE 0],
                 y.buf, [pos |-> 0, free |-> 5], y.pos + 1)} :
       /\ out' = r.decnum
       /\ ret' = [ok |-> r.ok, pos |-> r.pos, free |-> r.free]
  /\ pc' = "unpacked"
  /\ UNCHANGED <<x, y>>

NextExponent == PackExponent \/ PackMantissaDeclet \/ UnpackExponent

SpecExponent == InitExponent /\ [][NextExponent]_vars

\* the bits of the bytes written so far
WrittenBits == BytesBits([i \in 1..(y.pos + 1) |-> y.buf[i - 1]])

\* the number of bits before the cursor p
BitsBefore(p) == 8 * p.pos + 8 - p.free

TOf(c) == IF c.T THEN 1 ELSE 0

(***************************************************************************)
(* C22: for every exponent E of the tables (0..125) and both T, the bits   *)
(* the tables write from the T bit on are those of the general algorithm   *)
(* (N = bitlen(E + 2): N - 1 ones, a zero, the low N - 1 bits of E + 2,    *)
(* complemented when T = 0), the rest of the last byte is zero and the     *)
(* free-bit count is that of a cursor moved over these bits.               *)
(***************************************************************************)
C22_TablesMatchGeneral ==
  (pc = "exponent" /\ x.exp <= 125) =>
    /\ BitsBefore(y) = 3 + Len(ExponentField(x.exp, TOf(x)))
    /\ y.free < 8
    /\ Len(WrittenBits) = 8 * (y.pos + 1)
    /\ \A i \in 1..Len(WrittenBits) :
         WrittenBits[i] =
           IF i <= 3 THEN (IF i = 1 /\ ~x.neg THEN 1 ELSE 0)
           ELSE IF i <= BitsBefore(y) THEN ExponentField(x.exp, TOf(x))[i - 3]
           ELSE 0

C22_Witness ==
  /\ pc = "exponent"
  /\ x.exp = 61
  /\ ~x.T
  /\ y.pos = 1
  /\ y.free = 2
  /\ y.buf[1] = 128

\* the width of the field decInfinitePackExponent writes for E and T
FieldWidth(E, T) ==
  BitsBefore(decInfinitePackExponent(E, T, FirstByte(FALSE, 0))) - 3

(***************************************************************************)
(* C24: the exponent field written, T bit included, is 2N - 1 bits wide    *)
(* with N = bitlen(E + 2); so for one sign and one T the width does not    *)
(* decrease when the magnitude of the adjusted exponent increases.         *)
(***************************************************************************)
C24_FieldWidth ==
  pc # "input" =>
    /\ BitsBefore(x.cursor) - 3 = 2 * BitLen(x.exp + 2) - 1
    /\ \A E \in ExponentInputs :
         E <= x.exp => FieldWidth(E, x.T) <= BitsBefore(x.cursor) - 3

C24_Witness ==
  /\ pc = "exponent"
  /\ x.exp = 999999999
  /\ x.cursor = [pos |-> 7, free |-> 2]

(***************************************************************************)
(* C23: decInfiniteUnpackExponent on the bits decInfinitePackExponent      *)
(* wrote for E and T, followed by at least one declet, succeeds, returns   *)
(* the magnitude E with the sign that the sign of the number and T imply,  *)
(* and leaves the cursor where the encoder's cursor stood after the        *)
(* exponent.                                                               *)
(***************************************************************************)
C23_ExponentRoundTrip ==
  pc = "unpacked" =>
    /\ ret.ok
    /\ out.exponent = IF x.neg = x.T THEN -x.exp ELSE x.exp
    /\ [pos |-> ret.pos, free |-> ret.free] = x.cursor

C23_Witness ==
  /\ pc = "unpacked"
  /\ x.exp = 999999999
  /\ x.neg
  /\ x.T
  /\ out.exponent = -999999999
  /\ ret.ok

(***************************************************************************)
(* C26: after the header and the exponent the free count of the cursor is  *)
(* 0, 2, 4 or 6, it is so again after each declet, and each declet is      *)
(* written in two consecutive bytes: it starts in the byte of the cursor,  *)
(* or in the next one when that byte is full, and ends in the byte after.  *)
(***************************************************************************)
C26_DecletAlignment ==
  pc # "input" =>
    /\ x.cursor.free \in {0, 2, 4, 6}
    /\ y.free \in {0, 2, 4, 6}
    /\ x.declets > 0 =>
         /\ BitsBefore(y) = BitsBefore(x.before) + 10
         /\ y.pos = (IF x.before.free = 0 THEN x.before.pos + 1
                                          ELSE x.before.pos) + 1

C26_Witness ==
  /\ pc = "mantissa"
  /\ x.declets = 3
  /\ x.before.free = 0
  /\ y.free = 6

(***************************************************************************)
(* pack and unpack on their own: a cursor in a buffer of four bytes, the   *)
(* bits before the cursor written, the rest of its byte zero as pack       *)
(* leaves it, and the bytes after it never written.                        *)
(***************************************************************************)
PackLength == 4

WrittenPatterns == {0, 170, 255}

PackedBytes == {0, 1, 128, 165, 255}

\* the buffer with the bits before (pos, free) taken from pattern
WrittenBuffer(pos, free, pattern, fill) ==
  [i \in 0..(PackLength - 1) |->
     IF i < pos THEN pattern
     ELSE IF i = pos THEN pattern - (pattern % (2 ^ free))
     ELSE fill]

InitPack ==
  /\ pc = "input"
  /\ \E pos \in 0..(PackLength - 3), free \in 0..7, n \in 1..8, bits \in PackedBytes,
        pattern \in WrittenPatterns, fill \in Fills :
       /\ x = [pos |-> pos, free |-> free, n |-> n, bits |-> bits,
               buf |-> WrittenBuffer(pos, free, pattern, fill)]
       /\ y = [buf |-> WrittenBuffer(pos, free, pattern, fill),
               pos |-> pos, free |-> free]
  /\ out = StaleNumber
  /\ ret = [pos |-> 0, free |-> 0, bits |-> 0]

\* p = pack(p, bits, n)
PackBits ==
  /\ pc = "input"
  /\ y' = pack(y, x.bits, x.n)
  /\ pc' = "packed"
  /\ UNCHANGED <<x, out, ret>>

\* unpack(p, &bits, n) from the cursor pack started at
UnpackBits ==
  /\ pc = "packed"
  /\ ret' = unpack(y.buf, [pos |-> x.pos, free |-> x.free], x.n)
  /\ pc' = "unpacked"
  /\ UNCHANGED <<x, y, out>>

NextPack == PackBits \/ UnpackBits

SpecPack == InitPack /\ [][NextPack]_vars

BufferBits(buf) == BytesBits([i \in 1..PackLength |-> buf[i - 1]])

(***************************************************************************)
(* C25: pack writes the n low bits of its argument right after the bits    *)
(* written before, in a zeroed byte when it moves to the next one, changes *)
(* nothing else and returns a cursor with fewer than eight free bits;      *)
(* unpack from the same cursor returns these n bits and the same cursor.   *)
(***************************************************************************)
C25_PackUnpack ==
  pc # "input" =>
    /\ y.free < 8
    /\ BitsBefore(y) = BitsBefore(x) + x.n
    /\ \A i \in 1..(8 * PackLength) :
         BufferBits(y.buf)[i] =
           IF i <= BitsBefore(x) THEN BufferBits(x.buf)[i]
           ELSE IF i <= BitsBefore(y) THEN ToBits(x.bits, x.n)[i - BitsBefore(x)]
           ELSE IF i <= 8 * (y.pos + 1) THEN 0
           ELSE BufferBits(x.buf)[i]
    /\ pc = "unpacked" =>
         /\ ret.bits = x.bits % (2 ^ x.n)
         /\ ret.pos = y.pos
         /\ ret.free = y.free

C25_Witness ==
  /\ pc = "unpacked"
  /\ x.free = 3
  /\ x.n = 8
  /\ x.bits = 165
  /\ x.buf[x.pos + 1] = 255
  /\ y.buf[x.pos + 1] = 40
  /\ ret.bits = 165

(***************************************************************************)
(* C27: every finite non-zero number the decoder returns has a number of   *)
(* digits that is a positive multiple of three and at most DECNUMDIGITS,   *)
(* an adjusted exponent of magnitude at most 999999999, a least            *)
(* significant unit that is not zero and a most significant unit of three  *)
(* digits; encoded again, decShiftToMost leaves it a number of digits that *)
(* is a multiple of three.                                                 *)
(***************************************************************************)
C27_DecodedNormalized ==
  /\ (pc = "decoded" /\ ret = "ok" /\ x.len > 1) =>
       /\ out.digits > 0
       /\ out.digits % 3 = 0
       /\ out.digits <= DECNUMDIGITS
       /\ out.exponent + out.digits - 1 <= 999999999
       /\ out.exponent + out.digits - 1 >= -999999999
       /\ out.lsu[0] # 0
       /\ out.lsu[D2U(out.digits) - 1] >= 100
  /\ (pc = "reencoded" /\ x.len > 1) => y.decnum.digits % 3 = 0

(***************************************************************************)
(* C28: an empty blob is rejected without a read of its first byte and     *)
(* without stopping the process: the operation comes to its end with the   *)
(* Conversion syntax condition, as an error if it is trapped and as a flag *)
(* of the status if it is not.                                             *)
(***************************************************************************)
C28_EmptyBlobRejected ==
  (x.len = 0 /\ pc # "value") =>
    /\ pc = "decimal"
    /\ ~ret.read
    /\ ret.rejected
    /\ IF "Conversion syntax" \in y.traps
         THEN ~ret.ok /\ ret.error = "Conversion syntax"
         ELSE ret.ok /\ "Conversion syntax" \in y.status

====
